---- MODULE Spec2Model ----
(***************************************************************************)
(* Model of the vibetap CLI's apply / revert engine and its history        *)
(* ledger (crates/vibetap-cli/src/commands/apply.rs, revert.rs).           *)
(*                                                                         *)
(* The working directory is a map from paths to file contents, the ledger  *)
(* is the content of .vibetap/history.json, the saved suggestions are the  *)
(* content of .vibetap/last-suggestions.json, and the clock is the value   *)
(* SystemTime::now() returns, in whole seconds.  An I/O operation that     *)
(* fails is modelled as failing before it has any effect on the file       *)
(* (e.g. permission denied).                                               *)
(***************************************************************************)
EXTENDS Integers, Sequences, FiniteSets, TLC

VARIABLES fs, historyFile, saved, now, out, procs, parse, diff, store, gen,
          hush, watch, auth, stream, hook

vars == <<fs, historyFile, saved, now, out, procs, parse, diff, store, gen, hush, watch, auth, stream, hook>>

(* ----------------------------- bounds --------------------------------- *)

\* The clock takes the values 0..MaxTime.
MaxTime == 1

\* The ledger never holds more than MaxLedger records.
MaxLedger == 4

\* revert --count takes the values 0..MaxCount.
MaxCount == 2

\* A behaviour holds at most MaxOps apply and revert invocations.
MaxOps == 3

\* At most MaxFail file operations of one revert fail.
MaxFail == 1

\* A ledger file found in the working directory holds at most
\* MaxInitLedger records.
MaxInitLedger == 2

\* A selection given to the parser holds at most MaxTokens tokens.
MaxTokens == 2

\* A file delta of a diff holds at most MaxHunks hunks.
MaxHunks == 2

(* --------------------------- basic values ----------------------------- *)

\* A path with no file.
Absent == "<absent>"

\* Option::None of AppliedRecord.original_content.
None == "<none>"

\* .vibetap/history.json does not exist.
NoFile == [exists |-> FALSE, records |-> << >>]

\* Option::None of RevertArgs.count.
NoCount == -1

TargetPaths == {"t1", "t2"}

SourcePaths == {"src", "lib"}

Paths == TargetPaths \cup SourcePaths

\* GenerateResponse.suggestions of the saved-suggestions file: the opaque
\* ordered list of (id, file_path, code) the provider returned.
Suggestions ==
    << [id |-> "s1", file_path |-> "t1", code |-> "c1"],
       [id |-> "s2", file_path |-> "t2", code |-> "c2"],
       [id |-> "s3", file_path |-> "t1", code |-> "c3"] >>

\* compute_hash: DefaultHasher over the content, printed as 16 hex digits.
\* The digests of the contents the model uses are pairwise distinct.
compute_hash(content) ==
    CASE content = "foo"  -> "9a3f"
      [] content = "bar"  -> "17c0"
      [] content = "orig" -> "5be2"
      [] OTHER            -> "e001"

(* ------------------------------ helpers ------------------------------- *)

Range(s) == {s[i] : i \in 1..Len(s)}

Min(a, b) == IF a < b THEN a ELSE b

\* Path::exists
Exists(fsx, p) == fsx[p] # Absent

\* The two invocations that may overlap.
Pids == {1, 2}

\* An invocation that has not started: pc is "idle", then "loaded" (the
\* ledger is in memory), then "done" (the ledger is saved).
Idle ==
    [pc |-> "idle", cmd |-> "none", history |-> << >>, to_apply |-> << >>,
     to_revert |-> << >>, new_records |-> << >>]

(* --------------------------- history store ---------------------------- *)

\* load_history: the empty ledger when the file does not exist.
load_history(file) == IF ~file.exists THEN << >> ELSE file.records

\* save_history: the whole ledger replaces the file.
save_history(records) == [exists |-> TRUE, records |-> records]

(* ------------------------------ revert -------------------------------- *)

\* The index (1-based) of the first record whose applied_at equals ts:
\* records.iter().position(|r| r.applied_at == ts).
Position(records, ts) ==
    CHOOSE i \in 1..Len(records) :
        /\ records[i].applied_at = ts
        /\ \A j \in 1..(i - 1) : records[j].applied_at # ts

\* DrainStart with --count N keeping the first N records instead of
\* draining the last N.
DrainStartAfterCount(records, all, count) ==
    IF all THEN 1
    ELSE IF count # NoCount
         THEN Min(count, Len(records)) + 1
         ELSE Position(records, records[Len(records)].applied_at)

\* Where the drain starts for the three scopes (1-based; everything from
\* this index on is drained into to_revert).
DrainStart(records, all, count) ==
    IF all THEN 1
    ELSE IF count # NoCount
         THEN Len(records) - Min(count, Len(records)) + 1
         ELSE Position(records, records[Len(records)].applied_at)

\* RevertRecord with a record that has no original content skipped silently.
RevertRecordSilent(record, fsx, fails) ==
    IF record.created_file
    THEN IF Exists(fsx, record.file_path)
         THEN IF fails
              THEN [fs |-> fsx, outcome |-> "io"]
              ELSE [fs |-> [fsx EXCEPT ![record.file_path] = Absent], outcome |-> "ok"]
         ELSE [fs |-> fsx, outcome |-> "ok"]
    ELSE IF record.original_content # None
         THEN IF fails
              THEN [fs |-> fsx, outcome |-> "io"]
              ELSE [fs |-> [fsx EXCEPT ![record.file_path] = record.original_content],
                    outcome |-> "ok"]
         ELSE [fs |-> fsx, outcome |-> "ok"]

\* RevertRecord with remove_file called whether or not the file exists: the
\* delete of an absent file is an error.
RevertRecordNoExistsCheck(record, fsx, fails) ==
    IF record.created_file
    THEN IF fails \/ ~Exists(fsx, record.file_path)
         THEN [fs |-> fsx, outcome |-> "io"]
         ELSE [fs |-> [fsx EXCEPT ![record.file_path] = Absent], outcome |-> "ok"]
    ELSE IF record.original_content # None
         THEN IF fails
              THEN [fs |-> fsx, outcome |-> "io"]
              ELSE [fs |-> [fsx EXCEPT ![record.file_path] = record.original_content],
                    outcome |-> "ok"]
         ELSE [fs |-> fsx, outcome |-> "no original content recorded"]

\* The restoration of one record (revert.rs 96-133) on the file system fsx;
\* fails says that the file operation fails if it is attempted.  outcome is
\* "ok" (reverted_count += 1) or the error pushed.
RevertRecord(record, fsx, fails) ==
    IF record.created_file
    THEN IF Exists(fsx, record.file_path)
         THEN IF fails
              THEN [fs |-> fsx, outcome |-> "io"]
              ELSE [fs |-> [fsx EXCEPT ![record.file_path] = Absent], outcome |-> "ok"]
         ELSE [fs |-> fsx, outcome |-> "ok"]
    ELSE IF record.original_content # None
         THEN IF fails
              THEN [fs |-> fsx, outcome |-> "io"]
              ELSE [fs |-> [fsx EXCEPT ![record.file_path] = record.original_content],
                    outcome |-> "ok"]
         ELSE [fs |-> fsx, outcome |-> "no original content recorded"]

\* What the loop holds after one record's restoration gave r.
RevertAcc(acc, k, record, r) ==
    [fs             |-> r.fs,
     reverted_count |-> IF r.outcome = "ok" THEN acc.reverted_count + 1
                        ELSE acc.reverted_count,
     errors         |-> IF r.outcome = "ok" THEN acc.errors
                        ELSE Append(acc.errors, [pos |-> k, path |-> record.file_path,
                                                 kind |-> r.outcome])]

\* The restoration loop over to_revert in ledger order (revert.rs 92-134):
\* the file system, reverted_count and the errors after it.  ioFail is the
\* set of positions whose file operation fails if it is attempted.
RevertLoop(to_revert, fsx, ioFail) ==
    LET acc[k \in 0..Len(to_revert)] ==
            IF k = 0
            THEN [fs |-> fsx, reverted_count |-> 0, errors |-> << >>]
            ELSE RevertAcc(acc[k - 1], k, to_revert[k],
                           RevertRecord(to_revert[k], acc[k - 1].fs, k \in ioFail))
    IN  acc[Len(to_revert)]

\* What the last invocation did: its number (seq), its arguments and answers,
\* the file system it started from, what it selected and what it reported.
NoOut ==
    [seq |-> 0, cmd |-> "none", result |-> "none", scope |-> "none", count |-> NoCount,
     pre_fs |-> [p \in Paths |-> Absent],
     to_apply |-> << >>, to_revert |-> << >>, new_records |-> << >>,
     force |-> FALSE, drift_confirmed |-> FALSE, changed_files |-> {},
     applied_count |-> 0, reverted_count |-> 0, errors |-> << >>]

Scope(all, count) == IF all THEN "all" ELSE IF count # NoCount THEN "count" ELSE "default"

\* The records the scope drains from the loaded ledger (to_revert).
ToRevert(records, all, count) ==
    IF records = << >> THEN << >>
    ELSE SubSeq(records, DrainStart(records, all, count), Len(records))

\* Drained with the drain starting one record late.
DrainedLate(records, all, count) ==
    IF records = << >> THEN << >>
    ELSE SubSeq(records, 1, Min(DrainStart(records, all, count), Len(records)))

\* history.records after the drain: the records before the drained ones.
Drained(records, all, count) ==
    IF records = << >> THEN << >>
    ELSE SubSeq(records, 1, DrainStart(records, all, count) - 1)

\* revert::execute with RevertArgs {yes, all, count}; confirm is the answer
\* typed at the prompt.  The environment chooses the set ioFail of at most
\* maxFail positions whose file operation fails.
Revert(yes, all, count, confirm, maxFail) ==
    LET loaded    == load_history(historyFile)
        to_revert == ToRevert(loaded, all, count)
        history   == Drained(loaded, all, count)
        base      == [NoOut EXCEPT !.seq = out.seq + 1, !.cmd = "revert",
                                   !.scope = Scope(all, count), !.count = count]
    IN  /\ out.seq < MaxOps
        /\ IF loaded = << >>
           THEN /\ out' = [base EXCEPT !.result = "nothing"]
                /\ UNCHANGED <<fs, historyFile, saved, now, procs, parse, diff, store, gen, hush, watch, auth, stream, hook>>
           ELSE IF to_revert = << >>
           THEN /\ out' = [base EXCEPT !.result = "nothing"]
                /\ UNCHANGED <<fs, historyFile, saved, now, procs, parse, diff, store, gen, hush, watch, auth, stream, hook>>
           ELSE IF ~yes /\ ~confirm
           THEN \* "Put the records back"
                /\ Len(load_history(historyFile)) + Len(to_revert) <= MaxLedger
                /\ historyFile' = save_history(load_history(historyFile) \o to_revert)
                /\ out' = [base EXCEPT !.result = "cancelled", !.to_revert = to_revert]
                /\ UNCHANGED <<fs, saved, now, procs, parse, diff, store, gen, hush, watch, auth, stream, hook>>
           ELSE \E ioFail \in SUBSET (1..Len(to_revert)) :
                LET r == RevertLoop(to_revert, fs, ioFail)
                IN  /\ Cardinality(ioFail) <= maxFail
                    /\ fs' = r.fs
                    /\ historyFile' = save_history(history)
                    /\ out' = [base EXCEPT !.result = "ok", !.to_revert = to_revert,
                                           !.reverted_count = r.reverted_count,
                                           !.errors = r.errors]
                    /\ UNCHANGED <<saved, now, procs, parse, diff, store, gen, hush, watch, auth, stream, hook>>

\* The scopes the model draws from: default, --all, --count 0..MaxCount.
RevertScopes ==
    {[all |-> TRUE, count |-> NoCount]}
    \cup {[all |-> FALSE, count |-> c] : c \in {NoCount} \cup (0..MaxCount)}

\* --yes, or the prompt answered with something other than "y".
RevertAnswers ==
    {[yes |-> TRUE, confirm |-> FALSE], [yes |-> FALSE, confirm |-> FALSE]}

\* A revert invocation: any scope, any answer, at most MaxFail file
\* operations that fail.
RevertCmd ==
    \E scope \in RevertScopes, ans \in RevertAnswers :
        Revert(ans.yes, scope.all, scope.count, ans.confirm, MaxFail)

(* ------------------------- selection parser --------------------------- *)

\* A string is a sequence of one-character strings.
Digits == <<"0", "1", "2", "3", "4", "5", "6", "7", "8", "9">>

IsDigit(c) == c \in Range(Digits)

DigitVal(c) == (CHOOSE i \in 1..10 : Digits[i] = c) - 1

\* char::to_ascii_lowercase on the letters the inputs use.
ToLower(c) ==
    CASE c = "A" -> "a"
      [] c = "L" -> "l"
      [] OTHER   -> c

\* str::eq_ignore_ascii_case("all")
IsAll(s) ==
    /\ Len(s) = 3
    /\ ToLower(s[1]) = "a"
    /\ ToLower(s[2]) = "l"
    /\ ToLower(s[3]) = "l"

\* char::is_whitespace on the characters the inputs use.
IsWhite(c) == c \in {" ", "\t"}

\* str::trim: from the first to the last character that is not whitespace.
Trim(s) ==
    LET keep == {i \in 1..Len(s) : ~IsWhite(s[i])}
    IN  IF keep = {} THEN << >>
        ELSE SubSeq(s, CHOOSE i \in keep : \A j \in keep : i <= j,
                       CHOOSE i \in keep : \A j \in keep : j <= i)

\* str::split([',', ' ']): the parts between separators, empty parts kept.
SplitParts(s) ==
    LET cuts   == {0, Len(s) + 1} \cup {i \in 1..Len(s) : s[i] \in {",", " "}}
        Kth(k) == CHOOSE c \in cuts : Cardinality({d \in cuts : d < c}) = k - 1
    IN  [k \in 1..(Cardinality(cuts) - 1) |-> SubSeq(s, Kth(k) + 1, Kth(k + 1) - 1)]

\* str::split_once('-'): the position of the first '-', 0 when there is none.
DashPos(s) ==
    IF \E i \in 1..Len(s) : s[i] = "-"
    THEN CHOOSE i \in 1..Len(s) : s[i] = "-" /\ \A j \in 1..(i - 1) : s[j] # "-"
    ELSE 0

\* The value of a string of decimal digits.
DigitsValue(s) ==
    LET val[i \in 0..Len(s)] == IF i = 0 THEN 0 ELSE 10 * val[i - 1] + DigitVal(s[i])
    IN  val[Len(s)]

\* The value of an unsigned decimal numeral; -1 is Err.
ParseDigits(body) ==
    IF body # << >> /\ \A i \in 1..Len(body) : IsDigit(body[i])
    THEN DigitsValue(body)
    ELSE -1

\* str::parse::<usize>: an optional '+' and at least one digit; -1 is Err.
ParseUsize(s) ==
    ParseDigits(IF s # << >> /\ Head(s) = "+" THEN Tail(s) ELSE s)

\* The indices a..b (start..=end), each minus one, in order.
RangeIndices(a, b) == [i \in 1..(IF b >= a THEN b - a + 1 ELSE 0) |-> a + i - 2]

\* ParseRange with a bound greater than max clamped to max.
ParseRangeClamp(start, end, max) ==
    IF start = -1 \/ end = -1
    THEN [status |-> "err", pushed |-> << >>]
    ELSE IF start = 0 \/ end = 0
    THEN [status |-> "err", pushed |-> << >>]
    ELSE [status |-> "ok", pushed |-> RangeIndices(Min(start, max), Min(end, max))]

\* A range "A-B" whose bounds parsed to start and end (apply.rs 246-257).
ParseRange(start, end, max) ==
    IF start = -1 \/ end = -1
    THEN [status |-> "err", pushed |-> << >>]
    ELSE IF start = 0 \/ end = 0 \/ start > max \/ end > max
    THEN [status |-> "err", pushed |-> << >>]
    ELSE [status |-> "ok", pushed |-> RangeIndices(start, end)]

\* A single number that parsed to num (apply.rs 260-266).
ParseSingle(num, max) ==
    IF num = -1
    THEN [status |-> "err", pushed |-> << >>]
    ELSE IF num = 0 \/ num > max
    THEN [status |-> "err", pushed |-> << >>]
    ELSE [status |-> "ok", pushed |-> <<num - 1>>]

\* One trimmed part with its first '-' at position dash (apply.rs 235-267).
\* status: "skip" (empty part), "all", "err", or "ok" with the indices pushed.
ParseTrimmed(part, dash, max) ==
    IF part = << >> THEN [status |-> "skip", pushed |-> << >>]
    ELSE IF IsAll(part) THEN [status |-> "all", pushed |-> << >>]
    ELSE IF dash # 0
    THEN ParseRange(ParseUsize(Trim(SubSeq(part, 1, dash - 1))),
                    ParseUsize(Trim(SubSeq(part, dash + 1, Len(part)))), max)
    ELSE ParseSingle(ParseUsize(part), max)

\* One part of one input.
ParsePart(raw, max) == ParseTrimmed(Trim(raw), DashPos(Trim(raw)), max)

\* The loop over the parts, given each part's outcome rs[i]: it stops at the
\* first part that is "all" or an error; result holds what was pushed before.
FoldParts(rs, result) ==
    LET stops == {i \in 1..Len(rs) : rs[i].status \in {"all", "err"}}
        last  == IF stops = {} THEN Len(rs)
                 ELSE (CHOOSE i \in stops : \A j \in stops : i <= j) - 1
        acc[i \in 0..Len(rs)] == IF i = 0 THEN result ELSE acc[i - 1] \o rs[i].pushed
    IN  [status |-> IF stops = {} THEN "ok" ELSE rs[last + 1].status,
         result |-> acc[last]]

\* The loop over the parts of one input.
ParseParts(parts, max, result) ==
    FoldParts([i \in 1..Len(parts) |-> ParsePart(parts[i], max)], result)

\* The loop over the inputs: it stops at the first input that is "all",
\* holds an "all" part or fails.
ParseInputs(inputs, max, result) ==
    LET step[i \in 0..Len(inputs)] ==
            IF i = 0 THEN [status |-> "ok", result |-> result]
            ELSE IF step[i - 1].status # "ok" THEN step[i - 1]
            ELSE IF IsAll(inputs[i]) THEN [status |-> "all", result |-> step[i - 1].result]
            ELSE ParseParts(SplitParts(inputs[i]), max, step[i - 1].result)
    IN  step[Len(inputs)]

\* SortDedup with the indices in descending order.
SortDedupDescending(S) ==
    [k \in 1..Cardinality(S) |-> CHOOSE x \in S : Cardinality({y \in S : y > x}) = k - 1]

\* result.sort(); result.dedup(): the pushed indices in ascending order, each once.
SortDedup(S) ==
    [k \in 1..Cardinality(S) |-> CHOOSE x \in S : Cardinality({y \in S : y < x}) = k - 1]

\* What parse_selections returns for the outcome r of the loops.
Finish(r, max) ==
    CASE r.status = "all" -> [ok |-> TRUE, indices |-> [i \in 1..max |-> i - 1]]
      [] r.status = "err" -> [ok |-> FALSE, indices |-> << >>]
      [] OTHER            -> [ok |-> TRUE, indices |-> SortDedup(Range(r.result))]

\* parse_selections: [ok, indices]; the indices are 0-based.
parse_selections(inputs, max) == Finish(ParseInputs(inputs, max, << >>), max)

(* ------------------------------- apply -------------------------------- *)

\* check_file_changes with an unreadable file left out of the report.
check_file_changesReadableOnly(sv, fsx) ==
    {[path |-> p, unreadable |-> FALSE] :
        p \in {q \in DOMAIN sv.source_files :
                  Exists(fsx, q) /\ compute_hash(fsx[q]) # sv.source_files[q]}}

\* check_file_changes: the entries reported for the tracked source files; an
\* unreadable file is reported with the "(deleted or unreadable)" marker.
check_file_changes(sv, fsx) ==
    {[path |-> p, unreadable |-> TRUE] :
        p \in {q \in DOMAIN sv.source_files : ~Exists(fsx, q)}}
    \cup
    {[path |-> p, unreadable |-> FALSE] :
        p \in {q \in DOMAIN sv.source_files :
                  Exists(fsx, q) /\ compute_hash(fsx[q]) # sv.source_files[q]}}

\* ApplyLoop with the content captured after the write instead of before it.
RECURSIVE ApplyLoopCaptureAfterWrite(_, _, _, _, _, _, _, _)
ApplyLoopCaptureAfterWrite(suggestions, to_apply, k, fsx, recs, clk, failAt, adv) ==
    IF k > Len(to_apply)
    THEN [fs |-> fsx, records |-> recs, now |-> clk, err |-> FALSE, applied_count |-> k - 1]
    ELSE IF failAt = k
    THEN [fs |-> fsx, records |-> recs, now |-> clk, err |-> TRUE, applied_count |-> k - 1]
    ELSE LET suggestion == suggestions[to_apply[k] + 1]
             p          == suggestion.file_path
             created    == ~Exists(fsx, p)
             original   == IF created THEN None ELSE suggestion.code
             stamp      == clk + adv[k]
         IN  ApplyLoopCaptureAfterWrite(suggestions, to_apply, k + 1,
                       [fsx EXCEPT ![p] = suggestion.code],
                       Append(recs, [suggestion_id    |-> suggestion.id,
                                     file_path        |-> p,
                                     created_file     |-> created,
                                     original_content |-> original,
                                     applied_at       |-> stamp]),
                       stamp, failAt, adv)

\* ApplyLoop that goes on to the next suggestion when a capture or write
\* fails, and reports the failure at the end.
RECURSIVE ApplyLoopContinue(_, _, _, _, _, _, _, _)
ApplyLoopContinue(suggestions, to_apply, k, fsx, recs, clk, failAt, adv) ==
    IF k > Len(to_apply)
    THEN [fs |-> fsx, records |-> recs, now |-> clk, err |-> failAt # 0,
          applied_count |-> IF failAt # 0 THEN failAt - 1 ELSE k - 1]
    ELSE IF failAt = k
    THEN ApplyLoopContinue(suggestions, to_apply, k + 1, fsx, recs, clk, failAt, adv)
    ELSE LET suggestion == suggestions[to_apply[k] + 1]
             p          == suggestion.file_path
             created    == ~Exists(fsx, p)
             original   == IF created THEN None ELSE fsx[p]
             stamp      == clk + adv[k]
         IN  ApplyLoopContinue(suggestions, to_apply, k + 1,
                       [fsx EXCEPT ![p] = suggestion.code],
                       Append(recs, [suggestion_id    |-> suggestion.id,
                                     file_path        |-> p,
                                     created_file     |-> created,
                                     original_content |-> original,
                                     applied_at       |-> stamp]),
                       stamp, failAt, adv)

\* ApplyLoop that opens the target for writing before it captures the
\* content: a failed capture leaves the suggestion's code in the file.
RECURSIVE ApplyLoopWriteBeforeCapture(_, _, _, _, _, _, _, _)
ApplyLoopWriteBeforeCapture(suggestions, to_apply, k, fsx, recs, clk, failAt, adv) ==
    IF k > Len(to_apply)
    THEN [fs |-> fsx, records |-> recs, now |-> clk, err |-> FALSE, applied_count |-> k - 1]
    ELSE IF failAt = k
    THEN [fs |-> [fsx EXCEPT ![suggestions[to_apply[k] + 1].file_path] =
                                 suggestions[to_apply[k] + 1].code],
          records |-> recs, now |-> clk, err |-> TRUE, applied_count |-> k - 1]
    ELSE LET suggestion == suggestions[to_apply[k] + 1]
             p          == suggestion.file_path
             created    == ~Exists(fsx, p)
             original   == IF created THEN None ELSE fsx[p]
             stamp      == clk + adv[k]
         IN  ApplyLoopWriteBeforeCapture(suggestions, to_apply, k + 1,
                       [fsx EXCEPT ![p] = suggestion.code],
                       Append(recs, [suggestion_id    |-> suggestion.id,
                                     file_path        |-> p,
                                     created_file     |-> created,
                                     original_content |-> original,
                                     applied_at       |-> stamp]),
                       stamp, failAt, adv)

\* The write loop over to_apply[k..] (apply.rs 147-183).  fsx is the file
\* system so far, recs the in-memory history.records, clk the clock; the
\* clock advances by adv[k] seconds before the k-th timestamp is taken;
\* failAt is the position whose capture or write fails (0: none).
RECURSIVE ApplyLoop(_, _, _, _, _, _, _, _)
ApplyLoop(suggestions, to_apply, k, fsx, recs, clk, failAt, adv) ==
    IF k > Len(to_apply)
    THEN [fs |-> fsx, records |-> recs, now |-> clk, err |-> FALSE, applied_count |-> k - 1]
    ELSE IF failAt = k
    THEN [fs |-> fsx, records |-> recs, now |-> clk, err |-> TRUE, applied_count |-> k - 1]
    ELSE LET suggestion == suggestions[to_apply[k] + 1]
             p          == suggestion.file_path
             created    == ~Exists(fsx, p)
             original   == IF created THEN None ELSE fsx[p]
             stamp      == clk + adv[k]
         IN  ApplyLoop(suggestions, to_apply, k + 1,
                       [fsx EXCEPT ![p] = suggestion.code],
                       Append(recs, [suggestion_id    |-> suggestion.id,
                                     file_path        |-> p,
                                     created_file     |-> created,
                                     original_content |-> original,
                                     applied_at       |-> stamp]),
                       stamp, failAt, adv)

\* The selections the model draws from; a typed line is read only when no
\* selection argument is given.
SelectionInputs ==
    {[selections |-> << <<"2", "-", "3">> >>, typed |-> << >>],
     [selections |-> << <<"a", "l", "l">> >>, typed |-> << >>],
     [selections |-> << >>, typed |-> <<" ", "2", "\t">>]}

\* The selections the invocations at the drift gate draw from: the last two
\* are malformed and empty.
GateInputs ==
    {[selections |-> << <<"2", "-", "3">> >>, typed |-> << >>],
     [selections |-> << >>, typed |-> <<" ", "2", "\t">>],
     [selections |-> << <<"x">> >>, typed |-> << >>],
     [selections |-> << >>, typed |-> << >>]}

\* The selection apply::execute parses (apply.rs 89-111): the typed line,
\* trimmed, in interactive mode.
ParseArgs(selections, typed, max) ==
    parse_selections(IF selections = << >> THEN <<Trim(typed)>> ELSE selections, max)

\* ParseArgs over the selections the model draws from, for the saved
\* suggestions of Init.
ParsedInputs ==
    [input \in SelectionInputs \cup GateInputs |->
        ParseArgs(input.selections, input.typed, Len(Suggestions))]

\* ParseArgs, read from ParsedInputs where it holds the result.
Selected(selections, typed, max) ==
    LET input == [selections |-> selections, typed |-> typed]
    IN  IF max = Len(Suggestions) /\ input \in DOMAIN ParsedInputs
        THEN ParsedInputs[input]
        ELSE ParseArgs(selections, typed, max)

\* DriftGate with --yes taken as the confirmation.
DriftGateYesConfirms(changed, yes, driftAnswer) ==
    IF changed = {} THEN "pass"
    ELSE IF ~yes
         THEN IF driftAnswer THEN "pass" ELSE "drift_declined"
         ELSE "pass"

\* The drift gate (apply.rs 55-84) given the changed files found: "pass",
\* or the way the invocation ends.
DriftGate(changed, yes, driftAnswer) ==
    IF changed = {} THEN "pass"
    ELSE IF ~yes
         THEN IF driftAnswer THEN "pass" ELSE "drift_declined"
         ELSE "drift_blocked"

\* The clock advances by one second before the timestamp of position tickAt.
Advance(tickAt) == [k \in 1..Len(Suggestions) |-> IF k = tickAt THEN 1 ELSE 0]

\* apply::execute with ApplyArgs {selections, yes, force}.  typed is the line
\* read in interactive mode, driftAnswer and applyAnswer are the answers to
\* the two prompts.  The environment chooses the position failAt in
\* failPoints at which a capture or write fails (0: none) and the position
\* tickAt in tickPoints before whose timestamp the clock advances (0: none).
Apply(selections, typed, yes, force, driftAnswer, applyAnswer, failPoints, tickPoints) ==
    LET response == saved
        max      == Len(response.suggestions)
        changed  == IF ~force /\ DOMAIN saved.source_files # {}
                    THEN check_file_changes(saved, fs)
                    ELSE {}
        gate     == DriftGate(changed, yes, driftAnswer)
        parsed   == Selected(selections, typed, max)
        to_apply == parsed.indices
        history  == load_history(historyFile)
        base     == [NoOut EXCEPT !.seq = out.seq + 1, !.cmd = "apply",
                                  !.pre_fs = fs, !.force = force,
                                  !.changed_files = changed,
                                  !.drift_confirmed = (changed # {} /\ ~yes /\ driftAnswer)]
        quit(result) ==
            /\ out' = [base EXCEPT !.result = result]
            /\ UNCHANGED <<fs, historyFile, saved, now, procs, parse, diff, store, gen, hush, watch, auth, stream, hook>>
    IN  /\ out.seq < MaxOps
        /\ IF response.suggestions = << >> THEN quit("nothing")
           ELSE IF gate # "pass" THEN quit(gate)
           ELSE IF ~parsed.ok THEN quit("invalid_selection")
           ELSE IF to_apply = << >> THEN quit("nothing")
           ELSE IF ~yes /\ ~applyAnswer THEN quit("cancelled")
           ELSE \E failAt \in failPoints \cap 0..Len(to_apply) :
                \E tickAt \in tickPoints \cap
                               0..(IF failAt = 0 THEN Len(to_apply) ELSE failAt - 1) :
                LET r == ApplyLoop(response.suggestions, to_apply, 1, fs, history,
                                   now, failAt, Advance(tickAt))
                    appended == SubSeq(r.records, Len(history) + 1, Len(r.records))
                IN  /\ Len(history) + Len(to_apply) <= MaxLedger
                    /\ r.now <= MaxTime
                    /\ fs' = r.fs
                    /\ now' = r.now
                    /\ historyFile' = IF r.err THEN historyFile ELSE save_history(r.records)
                    /\ out' = [base EXCEPT !.result = IF r.err THEN "err" ELSE "ok",
                                           !.to_apply = to_apply,
                                           !.new_records = appended,
                                           !.applied_count = r.applied_count]
                    /\ UNCHANGED <<saved, procs, parse, diff, store, gen, hush, watch, auth, stream, hook>>

\* An apply invocation with --yes whose source files are as they were at
\* generation: a capture or write may fail at any position, the clock may
\* tick at any position.
ApplyCmd ==
    \E input \in SelectionInputs :
        Apply(input.selections, input.typed, TRUE, FALSE, FALSE, FALSE,
              0..Len(Suggestions), 0..Len(Suggestions))

\* An apply invocation at the drift gate: --yes and --force in every
\* combination, and every answer to the two prompts; no write fails.
ApplyGateCmd ==
    \E input \in GateInputs, yes \in BOOLEAN, force \in BOOLEAN,
       driftAnswer \in BOOLEAN, applyAnswer \in BOOLEAN :
        Apply(input.selections, input.typed, yes, force, driftAnswer, applyAnswer,
              {0}, {0})

\* The user edits or deletes a source file.
EditSource ==
    \E p \in SourcePaths, c \in {"foo", "bar", Absent} :
        /\ fs[p] # c
        /\ fs' = [fs EXCEPT ![p] = c]
        /\ UNCHANGED <<historyFile, saved, now, out, procs, parse, diff, store, gen, hush, watch, auth, stream, hook>>

(* ------------------------------- clock -------------------------------- *)

\* A second passes between two invocations.
Tick ==
    /\ now < MaxTime
    /\ now' = now + 1
    /\ UNCHANGED <<fs, historyFile, saved, out, procs, parse, diff, store, gen, hush, watch, auth, stream, hook>>

(* ---------------------------- specification --------------------------- *)

\* No call of parse_selections on its own has been made.
NoParse ==
    [tokens |-> << >>, mode |-> "args", called |-> FALSE, op |-> "none",
     result |-> [ok |-> TRUE, indices |-> << >>]]

\* generate was run without --file (args.file is None).
NoFilter == [given |-> FALSE, text |-> << >>]

\* No diff extraction has been started.
NoDiff ==
    [pc |-> "none", caller |-> "none", input |-> << >>, pos |-> 0,
     hunks |-> << >>, files_changed |-> << >>, current_file |-> << >>,
     result |-> "none", outcome |-> "none", filter |-> NoFilter]

\* No save or load of the ledger file is followed step by step.
NoStore ==
    [pc |-> "none", file |-> [exists |-> FALSE, text |-> << >>],
     before |-> [exists |-> FALSE, text |-> << >>],
     history |-> << >>, json |-> << >>, result |-> [ok |-> TRUE, records |-> << >>]]

\* .vibetap/last-suggestions.json is not followed as a file.
NoGen ==
    [pc |-> "none", file |-> [exists |-> FALSE, doc |-> [t |-> "invalid", v |-> ""]],
     result |-> [ok |-> FALSE], calls |-> 0,
     last |-> [cmd |-> "none", result |-> "none", returns |-> "none",
               provider_ok |-> FALSE, suggestions |-> << >>, files_changed |-> << >>,
               fs_at |-> << >>, at |-> 0]]

\* No hush command is followed: .vibetap/state.json is not read.
NoHush == [pc |-> "none"]

\* No watch loop runs.
NoWatch == [pc |-> "none"]

\* No stored credentials are read.
NoAuth == [pc |-> "none"]

\* No streamed generation is in progress.
NoStream == [pc |-> "none"]

\* No pre-commit hook file is followed.
NoHook == [pc |-> "none"]

\* The working directory after a generation: the target files exist or not,
\* the saved suggestions hold the digests of the tracked source files.
InitWith(trackedSets) ==
    /\ hush = NoHush /\ watch = NoWatch /\ auth = NoAuth
    /\ stream = NoStream /\ hook = NoHook
    /\ fs \in [Paths -> {Absent, "orig", "foo"}]
    /\ \A p \in TargetPaths : fs[p] \in {Absent, "orig"}
    /\ \A p \in SourcePaths : fs[p] = "foo"
    /\ historyFile = NoFile
    /\ \E tracked \in trackedSets :
           saved = [suggestions  |-> Suggestions,
                    source_files |-> [p \in tracked |-> compute_hash(fs[p])],
                    generated_at |-> 0]
    /\ now = 0
    /\ out = NoOut
    /\ procs = [pid \in Pids |-> Idle]
    /\ parse = NoParse
    /\ diff = NoDiff
    /\ store = NoStore
    /\ gen = NoGen

Init == InitWith({SourcePaths})

Next ==
    \/ ApplyCmd
    \/ RevertCmd

\* Apply and revert invocations, one after the other, on unchanged sources.
Spec == Init /\ [][Next]_vars

\* The working directory of the drift checks: the target files exist, and
\* either no source file or every source file is tracked.
InitDrift ==
    /\ InitWith({{}, SourcePaths})
    /\ \A p \in TargetPaths : fs[p] = "orig"

NextDrift ==
    \/ ApplyGateCmd
    \/ EditSource

\* Apply invocations between edits of the source files.
SpecDrift == InitDrift /\ [][NextDrift]_vars

\* The records a ledger file found in the working directory may hold: any
\* combination the JSON schema admits for the two target paths.
LedgerRecords ==
    {r \in [suggestion_id : {"s0"}, file_path : TargetPaths, created_file : BOOLEAN,
            original_content : {None, "orig"}, applied_at : {0}] :
        r.created_file => r.original_content = None}

\* A working directory with a ledger file of 1..MaxInitLedger records.
InitRevert ==
    /\ hush = NoHush /\ watch = NoWatch /\ auth = NoAuth
    /\ stream = NoStream /\ hook = NoHook
    /\ fs \in [Paths -> {Absent, "c1", "foo"}]
    /\ \A p \in TargetPaths : fs[p] \in {Absent, "c1"}
    /\ \A p \in SourcePaths : fs[p] = "foo"
    /\ \E n \in 1..MaxInitLedger : \E records \in [1..n -> LedgerRecords] :
           historyFile = save_history(records)
    /\ saved = [suggestions  |-> Suggestions,
                source_files |-> [p \in SourcePaths |-> compute_hash(fs[p])],
                generated_at |-> 0]
    /\ now = 0
    /\ out = NoOut
    /\ procs = [pid \in Pids |-> Idle]
    /\ parse = NoParse
    /\ diff = NoDiff
    /\ store = NoStore
    /\ gen = NoGen

\* A revert invocation the user confirms at the prompt.
RevertConfirmedCmd ==
    \E scope \in RevertScopes :
        Revert(FALSE, scope.all, scope.count, TRUE, MaxFail)

NextRevert == RevertConfirmedCmd

\* Revert invocations on a ledger file found in the working directory.
SpecRevert == InitRevert /\ [][NextRevert]_vars

(* ------------------------ the selection parser ------------------------ *)

\* The tokens a selection is made of, each with what it denotes: a number
\* (lo = hi), a range lo-hi, the keyword, an empty token, or neither.
Tokens ==
    {[text |-> <<"1">>,           kind |-> "number", lo |-> 1, hi |-> 1],
     [text |-> <<"+", "2">>,      kind |-> "number", lo |-> 2, hi |-> 2],
     [text |-> <<"0">>,           kind |-> "number", lo |-> 0, hi |-> 0],
     [text |-> <<"4">>,           kind |-> "number", lo |-> 4, hi |-> 4],
     [text |-> <<"2", "-", "3">>, kind |-> "range",  lo |-> 2, hi |-> 3],
     [text |-> <<"3", "-", "1">>, kind |-> "range",  lo |-> 3, hi |-> 1],
     [text |-> <<"0", "-", "2">>, kind |-> "range",  lo |-> 0, hi |-> 2],
     [text |-> <<"2", "-", "4">>, kind |-> "range",  lo |-> 2, hi |-> 4],
     [text |-> <<"A", "l", "L">>, kind |-> "all",    lo |-> 0, hi |-> 0],
     [text |-> << >>,             kind |-> "empty",  lo |-> 0, hi |-> 0],
     [text |-> <<"x">>,           kind |-> "junk",   lo |-> 0, hi |-> 0],
     [text |-> <<"2", "-", "x">>, kind |-> "junk",   lo |-> 0, hi |-> 0]}

\* How the tokens reach parse_selections: one argument per token, or one
\* string with the tokens separated by commas or by spaces.
Modes == {"args", ",", " "}

\* The tokens' texts in one string, separated by sep.
Join(tokens, sep) ==
    LET acc[i \in 0..Len(tokens)] ==
            IF i = 0 THEN << >>
            ELSE IF i = 1 THEN tokens[1].text
            ELSE acc[i - 1] \o <<sep>> \o tokens[i].text
    IN  acc[Len(tokens)]

\* The inputs slice parse_selections receives.
Inputs(tokens, mode) ==
    IF mode = "args" THEN [i \in 1..Len(tokens) |-> tokens[i].text]
    ELSE <<Join(tokens, mode)>>

\* The state after parse_selections ran on the tokens.
Parsed(tokens, mode, op) ==
    [tokens |-> tokens, mode |-> mode, called |-> TRUE, op |-> op,
     result |-> parse_selections(Inputs(tokens, mode), Len(saved.suggestions))]

\* parse_selections is called on the selection.
ParseCall ==
    /\ ~parse.called
    /\ parse' = Parsed(parse.tokens, parse.mode, "parse")
    /\ UNCHANGED <<fs, historyFile, saved, now, out, procs, diff, store, gen, hush, watch, auth, stream, hook>>

\* parse_selections is called on the selection with two tokens exchanged.
ParseReordered ==
    /\ parse.called
    /\ \E i, j \in 1..Len(parse.tokens) :
          /\ i < j
          /\ parse.tokens[i] # parse.tokens[j]
          /\ parse' = Parsed([parse.tokens EXCEPT ![i] = parse.tokens[j],
                                                  ![j] = parse.tokens[i]],
                             parse.mode, "reorder")
    /\ UNCHANGED <<fs, historyFile, saved, now, out, procs, diff, store, gen, hush, watch, auth, stream, hook>>

\* parse_selections is called on the selection with one token repeated.
ParseRepeated ==
    /\ parse.called
    /\ Len(parse.tokens) < MaxTokens
    /\ \E i \in 1..Len(parse.tokens), at \in 0..Len(parse.tokens) :
          parse' = Parsed(SubSeq(parse.tokens, 1, at) \o <<parse.tokens[i]>>
                              \o SubSeq(parse.tokens, at + 1, Len(parse.tokens)),
                          parse.mode, "repeat")
    /\ UNCHANGED <<fs, historyFile, saved, now, out, procs, diff, store, gen, hush, watch, auth, stream, hook>>

\* A selection of 1..MaxTokens tokens, not parsed yet.
InitParse ==
    /\ hush = NoHush /\ watch = NoWatch /\ auth = NoAuth
    /\ stream = NoStream /\ hook = NoHook
    /\ fs = [p \in Paths |-> IF p \in SourcePaths THEN "foo" ELSE Absent]
    /\ historyFile = NoFile
    /\ saved = [suggestions  |-> Suggestions,
                source_files |-> [p \in SourcePaths |-> compute_hash(fs[p])],
                generated_at |-> 0]
    /\ now = 0
    /\ out = NoOut
    /\ procs = [pid \in Pids |-> Idle]
    /\ \E n \in 1..MaxTokens, mode \in Modes : \E tokens \in [1..n -> Tokens] :
          parse = [NoParse EXCEPT !.tokens = tokens, !.mode = mode]
    /\ diff = NoDiff
    /\ store = NoStore
    /\ gen = NoGen

NextParse ==
    \/ ParseCall
    \/ ParseReordered
    \/ ParseRepeated

\* Calls of parse_selections on a selection, on its reorderings and on its
\* repetitions.
SpecParse == InitParse /\ [][NextParse]_vars

(* --------------------------- diff extraction -------------------------- *)

\* The paths of the file deltas.
DiffPaths == {"lib.ts", "a.rs"}

\* The hunks a file delta is made of: the header's four fields and the
\* lines, each with its origin and its text.  The second one ends with the
\* marker line of a file that lacks its final newline (origin '>').
HunkShapes ==
    {[old_start |-> 1, old_lines |-> 1, new_start |-> 1, new_lines |-> 2,
      lines |-> <<[origin |-> "-", content |-> "old"],
                  [origin |-> "+", content |-> "new"],
                  [origin |-> "+", content |-> "more"]>>],
     [old_start |-> 9, old_lines |-> 1, new_start |-> 10, new_lines |-> 2,
      lines |-> <<[origin |-> " ", content |-> "ctx"],
                  [origin |-> "+", content |-> "end"],
                  [origin |-> ">", content |-> "no newline"]>>]}

\* The diffs: up to one delta per path, each of 0..MaxHunks hunks (a delta
\* without hunks is a binary file or a mode change).
DiffInputs ==
    LET HunkLists == UNION {[1..n -> HunkShapes] : n \in 0..MaxHunks}
        Deltas    == [path : DiffPaths, hunks : HunkLists]
    IN  {<< >>} \cup {<<d>> : d \in Deltas}
        \cup {pair \in {<<d, e>> : d \in Deltas, e \in Deltas} : pair[1].path # pair[2].path}

\* No hunk is passed to the callback (Option::None).
NoHunk == [old_start |-> 0, old_lines |-> 0, new_start |-> 0, new_lines |-> 0,
           lines |-> << >>, none |-> TRUE]

Flatten(seqs) ==
    LET acc[i \in 0..Len(seqs)] == IF i = 0 THEN << >> ELSE acc[i - 1] \o seqs[i]
    IN  acc[Len(seqs)]

\* The callbacks diff.print(DiffFormat::Patch, ..) makes for one hunk: one
\* for the hunk header (origin 'H') and one per line, each with the hunk.
HunkCallbacks(path, h) ==
    LET hunk == [old_start |-> h.old_start, old_lines |-> h.old_lines,
                 new_start |-> h.new_start, new_lines |-> h.new_lines,
                 lines |-> h.lines, none |-> FALSE]
    IN  <<[path |-> path, hunk |-> hunk, origin |-> "H", content |-> "@@"]>>
        \o [i \in 1..Len(h.lines) |->
               [path |-> path, hunk |-> hunk, origin |-> h.lines[i].origin,
                content |-> h.lines[i].content]]

\* The callbacks for one file delta: one for the file header (origin 'F',
\* no hunk), then those of its hunks.
DeltaCallbacks(d) ==
    <<[path |-> d.path, hunk |-> NoHunk, origin |-> "F", content |-> "diff --git"]>>
    \o Flatten([i \in 1..Len(d.hunks) |-> HunkCallbacks(d.path, d.hunks[i])])

\* The (delta, hunk, line) triples the closure of parse_diff is called with.
PrintPatch(input) == Flatten([i \in 1..Len(input) |-> DeltaCallbacks(input[i])])

\* TrackFile pushing the path on every callback.
TrackFileAlwaysPush(st, ev) ==
    [st EXCEPT !.files_changed = Append(st.files_changed, ev.path),
               !.current_file = ev.path]

\* "Track file changes" (lib.rs 50-57).
TrackFile(st, ev) ==
    [st EXCEPT !.files_changed = IF ev.path \in Range(st.files_changed)
                                 THEN st.files_changed
                                 ELSE Append(st.files_changed, ev.path),
               !.current_file = ev.path]

\* "When we see a hunk header, create a new hunk" (lib.rs 60-70): a
\* DiffHunk is pushed whenever the callback is passed a hunk.
PushHunk(st, ev) ==
    IF ev.hunk.none THEN st
    ELSE [st EXCEPT !.hunks = Append(st.hunks,
                        [file_path |-> st.current_file,
                         old_start |-> ev.hunk.old_start, old_lines |-> ev.hunk.old_lines,
                         new_start |-> ev.hunk.new_start, new_lines |-> ev.hunk.new_lines,
                         content   |-> << >>])]

\* "Append line content to the current hunk" (lib.rs 73-81); the content
\* is the sequence of (origin, text) pushed.  Line texts are valid UTF-8.
AppendLine(st, ev) ==
    IF ev.origin \in {"+", "-", " "} /\ st.hunks # << >>
    THEN [st EXCEPT !.hunks[Len(st.hunks)].content =
                        Append(@, [origin |-> ev.origin, content |-> ev.content])]
    ELSE st

\* One call of the closure (lib.rs 48-84).
Callback(st, ev) == AppendLine(PushHunk(TrackFile(st, ev), ev), ev)

\* ParseDiffResult with the emptiness test on files_changed.
ParseDiffResultByFiles(hunks, files_changed) ==
    IF files_changed = << >> THEN "NoStagedChanges" ELSE "Ok"

\* What parse_diff returns (lib.rs 86-96).
ParseDiffResult(hunks, files_changed) ==
    IF hunks = << >> THEN "NoStagedChanges" ELSE "Ok"

\* What the caller does with the result: generate::execute (generate.rs
\* 84-107) and now::execute (now.rs 50-69) print a message and return
\* Ok(()), the watch loop (watch.rs 119-133) prints one and goes on.
CallerOutcome(caller, result) ==
    IF result = "Ok" THEN "proceed"
    ELSE IF caller = "watch" THEN "continue"
    ELSE "return Ok(())"

Callers == {"generate", "now", "watch"}

\* diff.print calls the closure for the next line of the patch.
DiffCallback ==
    /\ diff.pc = "printing"
    /\ diff.pos <= Len(PrintPatch(diff.input))
    /\ diff' = [Callback(diff, PrintPatch(diff.input)[diff.pos]) EXCEPT
                    !.pos = diff.pos + 1]
    /\ UNCHANGED <<fs, historyFile, saved, now, out, procs, parse, store, gen, hush, watch, auth, stream, hook>>

\* diff.print is over: parse_diff returns.
DiffReturn ==
    /\ diff.pc = "printing"
    /\ diff.pos > Len(PrintPatch(diff.input))
    /\ diff' = [diff EXCEPT !.pc = "returned",
                            !.result = ParseDiffResult(diff.hunks, diff.files_changed)]
    /\ UNCHANGED <<fs, historyFile, saved, now, out, procs, parse, store, gen, hush, watch, auth, stream, hook>>

\* The caller matches on the result.
DiffHandled ==
    /\ diff.pc = "returned"
    /\ diff' = [diff EXCEPT !.pc = "handled",
                            !.outcome = CallerOutcome(diff.caller, diff.result)]
    /\ UNCHANGED <<fs, historyFile, saved, now, out, procs, parse, store, gen, hush, watch, auth, stream, hook>>

\* The characters of the paths of the diff.
PathChars(p) ==
    CASE p = "lib.ts" -> <<"l", "i", "b", ".", "t", "s">>
      [] p = "a.rs"   -> <<"a", ".", "r", "s">>
      [] p = "src"    -> <<"s", "r", "c">>
      [] p = "lib"    -> <<"l", "i", "b">>

\* The values of --file: "./a.rs", "lib.ts", "s" (the end of both paths)
\* and "x.rs" (the end of neither), or no --file.
FileFilters ==
    {NoFilter,
     [given |-> TRUE, text |-> <<".", "/", "a", ".", "r", "s">>],
     [given |-> TRUE, text |-> <<"l", "i", "b", ".", "t", "s">>],
     [given |-> TRUE, text |-> <<"s">>],
     [given |-> TRUE, text |-> <<"x", ".", "r", "s">>]}

\* str::trim_start_matches("./"): the prefix "./" removed repeatedly.
RECURSIVE TrimStartMatches(_)
TrimStartMatches(s) ==
    IF Len(s) >= 2 /\ s[1] = "." /\ s[2] = "/"
    THEN TrimStartMatches(SubSeq(s, 3, Len(s)))
    ELSE s

\* str::ends_with
EndsWith(s, suffix) ==
    /\ Len(suffix) <= Len(s)
    /\ SubSeq(s, Len(s) - Len(suffix) + 1, Len(s)) = suffix

\* The predicate of both retain calls (generate.rs 112-119).
MatchesFilter(path, file_filter) ==
    LET normalized_filter == TrimStartMatches(file_filter)
        normalized_path   == TrimStartMatches(PathChars(path))
    IN  normalized_path = normalized_filter \/ EndsWith(normalized_path, normalized_filter)

\* "Filter by specific file if provided" (generate.rs 109-130): generate
\* got a diff, filters its hunks and files_changed by --file (Vec::retain
\* keeps the matching elements in their order), and returns Ok(()) when no
\* hunk is left.
FileFilter ==
    /\ diff.pc = "handled" /\ diff.caller = "generate" /\ diff.outcome = "proceed"
    /\ \E file \in FileFilters :
          LET KeepHunk(h) == MatchesFilter(h.file_path, file.text)
              KeepFile(f) == MatchesFilter(f, file.text)
              hunks == IF file.given THEN SelectSeq(diff.hunks, KeepHunk) ELSE diff.hunks
              files == IF file.given THEN SelectSeq(diff.files_changed, KeepFile)
                       ELSE diff.files_changed
          IN  diff' = [diff EXCEPT !.pc = "filtered", !.filter = file,
                                   !.hunks = hunks, !.files_changed = files,
                                   !.outcome = IF file.given /\ hunks = << >>
                                               THEN "return Ok(())" ELSE "proceed"]
    /\ UNCHANGED <<fs, historyFile, saved, now, out, procs, parse, store, gen, hush, watch, auth, stream, hook>>

\* A command has obtained a diff and parse_diff starts on it.
InitDiff ==
    /\ hush = NoHush /\ watch = NoWatch /\ auth = NoAuth
    /\ stream = NoStream /\ hook = NoHook
    /\ fs = [p \in Paths |-> IF p \in SourcePaths THEN "foo" ELSE Absent]
    /\ historyFile = NoFile
    /\ saved = [suggestions  |-> Suggestions,
                source_files |-> [p \in SourcePaths |-> compute_hash(fs[p])],
                generated_at |-> 0]
    /\ now = 0
    /\ out = NoOut
    /\ procs = [pid \in Pids |-> Idle]
    /\ parse = NoParse
    /\ store = NoStore
    /\ gen = NoGen
    /\ \E input \in DiffInputs, caller \in Callers :
          diff = [NoDiff EXCEPT !.pc = "printing", !.caller = caller,
                                !.input = input, !.pos = 1]

NextDiff ==
    \/ DiffCallback
    \/ DiffReturn
    \/ DiffHandled
    \/ FileFilter

\* parse_diff on a diff, callback by callback, and its caller.
SpecDiff == InitDiff /\ [][NextDiff]_vars

(* ------------------- the ledger file, write by write ------------------ *)

\* The longest ledger saved or found in the file.
MaxStoreLen == 2

\* The records of the ledgers saved: a created file, and two overwritten
\* ones at a later second.
StoreRecords ==
    {[suggestion_id |-> "s1", file_path |-> "t1", created_file |-> TRUE,
      original_content |-> None, applied_at |-> 0],
     [suggestion_id |-> "s2", file_path |-> "t2", created_file |-> FALSE,
      original_content |-> "orig", applied_at |-> 1],
     [suggestion_id |-> "s3", file_path |-> "t1", created_file |-> FALSE,
      original_content |-> "c1", applied_at |-> 1]}

StoreLedgers == UNION {[1..n -> StoreRecords] : n \in 0..MaxStoreLen}

\* The text of a JSON document is a sequence of tokens: punctuation, object
\* keys, and the literals of strings, numbers, booleans and null.
Punct(c) == [t |-> "punct", v |-> c]

Key(k) == [t |-> "key", v |-> k]

\* A string serialized (quoted and escaped; v is the string it denotes).
JsonString(x) == [t |-> "string", v |-> x]

\* The decimal digits of a non-negative integer.
RECURSIVE NumText(_)
NumText(n) ==
    IF n < 10 THEN <<Digits[n + 1]>>
    ELSE NumText(n \div 10) \o <<Digits[(n % 10) + 1]>>

\* An i64 serialized.
JsonNumber(n) == [t |-> "number", v |-> NumText(n)]

\* A bool serialized.
JsonBool(b) == [t |-> "literal", v |-> IF b THEN "true" ELSE "false"]

\* JsonOption with None written as the empty string.
JsonOptionEmptyForNone(x) == IF x = None THEN JsonString("") ELSE JsonString(x)

\* Option<String> serialized: null for None.
JsonOption(x) == IF x = None THEN [t |-> "literal", v |-> "null"] ELSE JsonString(x)

\* Serialize for AppliedRecord (apply.rs 29-36): the fields in declaration
\* order.
RecordJson(r) ==
    <<Punct("{"),
      Key("suggestion_id"), JsonString(r.suggestion_id), Punct(","),
      Key("file_path"), JsonString(r.file_path), Punct(","),
      Key("created_file"), JsonBool(r.created_file), Punct(","),
      Key("original_content"), JsonOption(r.original_content), Punct(","),
      Key("applied_at"), JsonNumber(r.applied_at),
      Punct("}")>>

\* The number of tokens of a serialized record.
RecordJsonLen == 16

\* serde_json::to_string_pretty(history) for ApplyHistory (apply.rs 39-42).
HistoryJson(records) ==
    LET body[i \in 0..Len(records)] ==
            IF i = 0 THEN << >>
            ELSE body[i - 1] \o (IF i = 1 THEN << >> ELSE <<Punct(",")>>)
                 \o RecordJson(records[i])
    IN  <<Punct("{"), Key("records"), Punct("[")>> \o body[Len(records)]
        \o <<Punct("]"), Punct("}")>>

\* A value could not be deserialized.
JsonErr == [ok |-> FALSE, records |-> << >>]

\* Deserialize for AppliedRecord on the tokens of one object: every field
\* present with a value of its type.
RecordFromJson(c) ==
    LET shape == /\ Len(c) = RecordJsonLen
                 /\ c[1] = Punct("{") /\ c[16] = Punct("}")
                 /\ \A i \in {4, 7, 10, 13} : c[i] = Punct(",")
                 /\ c[2] = Key("suggestion_id") /\ c[3].t = "string"
                 /\ c[5] = Key("file_path") /\ c[6].t = "string"
                 /\ c[8] = Key("created_file") /\ c[9] \in {JsonBool(TRUE), JsonBool(FALSE)}
                 /\ c[11] = Key("original_content")
                 /\ (c[12].t = "string" \/ c[12] = JsonOption(None))
                 /\ c[14] = Key("applied_at") /\ c[15].t = "number"
    IN  IF ~shape THEN [ok |-> FALSE]
        ELSE [ok |-> TRUE,
              record |-> [suggestion_id |-> c[3].v, file_path |-> c[6].v,
                          created_file |-> (c[9].v = "true"),
                          original_content |-> IF c[12].t = "string" THEN c[12].v ELSE None,
                          applied_at |-> DigitsValue(c[15].v)]]

\* serde_json::from_str::<ApplyHistory> on a text save_history wrote, or
\* on the beginning of one: an object with the array "records".
HistoryFromJson(text) ==
    LET n      == Len(text)
        body   == SubSeq(text, 4, n - 2)
        count  == (Len(body) + 1) \div (RecordJsonLen + 1)
        At(k)  == (k - 1) * (RecordJsonLen + 1)
        rec(k) == RecordFromJson(SubSeq(body, At(k) + 1, At(k) + RecordJsonLen))
        shape  == /\ n >= 5
                  /\ SubSeq(text, 1, 3) = <<Punct("{"), Key("records"), Punct("[")>>
                  /\ SubSeq(text, n - 1, n) = <<Punct("]"), Punct("}")>>
                  /\ \/ body = << >>
                     \/ /\ (Len(body) + 1) % (RecordJsonLen + 1) = 0
                        /\ \A k \in 1..count : rec(k).ok
                        /\ \A k \in 1..(count - 1) : body[At(k + 1)] = Punct(",")
    IN  IF ~shape THEN JsonErr
        ELSE [ok |-> TRUE,
              records |-> IF body = << >> THEN << >> ELSE [k \in 1..count |-> rec(k).record]]

\* load_history on the file as it is on disk (apply.rs 301-309).
LoadHistoryFile(file) ==
    IF ~file.exists THEN [ok |-> TRUE, records |-> << >>]
    ELSE HistoryFromJson(file.text)

\* std::fs::write starts (apply.rs 317-319): the history is serialized and
\* File::create makes the file or truncates it.
SaveCreate ==
    /\ store.pc = "idle"
    /\ \E history \in StoreLedgers :
          store' = [store EXCEPT !.pc = "writing", !.history = history,
                                 !.json = HistoryJson(history),
                                 !.before = store.file,
                                 !.file = [exists |-> TRUE, text |-> << >>]]
    /\ UNCHANGED <<fs, historyFile, saved, now, out, procs, parse, diff, gen, hush, watch, auth, stream, hook>>

\* write_all puts the next part of the text into the file.
SaveWrite ==
    /\ store.pc = "writing"
    /\ Len(store.file.text) < Len(store.json)
    /\ store' = [store EXCEPT !.file.text = Append(@, store.json[Len(@) + 1])]
    /\ UNCHANGED <<fs, historyFile, saved, now, out, procs, parse, diff, gen, hush, watch, auth, stream, hook>>

\* The whole text is written: save_history returns Ok(()).
SaveReturn ==
    /\ store.pc = "writing"
    /\ store.file.text = store.json
    /\ store' = [store EXCEPT !.pc = "saved"]
    /\ UNCHANGED <<fs, historyFile, saved, now, out, procs, parse, diff, gen, hush, watch, auth, stream, hook>>

\* The process is killed, or the machine stops, during the save.
SaveCrash ==
    /\ store.pc = "writing"
    /\ store' = [store EXCEPT !.pc = "crashed"]
    /\ UNCHANGED <<fs, historyFile, saved, now, out, procs, parse, diff, gen, hush, watch, auth, stream, hook>>

\* The next invocation calls load_history.
LoadHistory ==
    /\ store.pc \in {"idle", "saved", "crashed"}
    /\ store' = [store EXCEPT !.pc = "loaded:" \o store.pc,
                              !.result = LoadHistoryFile(store.file)]
    /\ UNCHANGED <<fs, historyFile, saved, now, out, procs, parse, diff, gen, hush, watch, auth, stream, hook>>

\* The ledger file is absent or holds a ledger saved earlier.
InitStore ==
    /\ hush = NoHush /\ watch = NoWatch /\ auth = NoAuth
    /\ stream = NoStream /\ hook = NoHook
    /\ fs = [p \in Paths |-> IF p \in SourcePaths THEN "foo" ELSE Absent]
    /\ historyFile = NoFile
    /\ saved = [suggestions  |-> Suggestions,
                source_files |-> [p \in SourcePaths |-> compute_hash(fs[p])],
                generated_at |-> 0]
    /\ now = 0
    /\ out = NoOut
    /\ procs = [pid \in Pids |-> Idle]
    /\ parse = NoParse
    /\ diff = NoDiff
    /\ gen = NoGen
    /\ \E file \in {NoStore.file} \cup {[exists |-> TRUE, text |-> HistoryJson(h)] : h \in StoreLedgers} :
          store = [NoStore EXCEPT !.pc = "idle", !.file = file, !.before = file]

NextStore ==
    \/ SaveCreate
    \/ SaveWrite
    \/ SaveReturn
    \/ SaveCrash
    \/ LoadHistory

\* save_history and load_history on the ledger file, write by write.
SpecStore == InitStore /\ [][NextStore]_vars

(* -------------------- the saved-suggestions file ---------------------- *)

\* A JSON document is a value: a string, number, boolean or null as above,
\* an array of values, or an object, a function from its keys to values.
JsonArray(seq) == [t |-> "array", v |-> seq]

JsonObject(f) == [t |-> "object", v |-> f]

\* A file content that is not JSON.
NotJson == [t |-> "invalid", v |-> "garbage"]

\* The responses of the provider, with the fields of a suggestion that
\* apply reads (id, file_path, code).
FullResponse ==
    [suggestions |-> Suggestions, summary |-> "sum", model_used |-> "m",
     used_byok |-> FALSE, tokens_used |-> 7, warning |-> None]

OtherResponse ==
    [suggestions |-> <<[id |-> "s9", file_path |-> "t2", code |-> "c9"]>>,
     summary |-> "other", model_used |-> "m", used_byok |-> TRUE,
     tokens_used |-> 12, warning |-> "w"]

\* The provider found nothing to suggest.
EmptyResponse ==
    [suggestions |-> << >>, summary |-> "none", model_used |-> "m",
     used_byok |-> FALSE, tokens_used |-> 3, warning |-> None]

Responses == {FullResponse, OtherResponse}

\* Serialize for TestSuggestion (api.rs 95-107, camelCase).
SuggestionJson(sg) ==
    JsonObject([id |-> JsonString(sg.id), filePath |-> JsonString(sg.file_path),
                code |-> JsonString(sg.code)])

\* Serialize for GenerateResponse (api.rs 83-93, camelCase).
ResponseJson(r) ==
    JsonObject([suggestions |-> JsonArray([i \in 1..Len(r.suggestions) |->
                                              SuggestionJson(r.suggestions[i])]),
                summary     |-> JsonString(r.summary),
                modelUsed   |-> JsonString(r.model_used),
                usedByok    |-> JsonBool(r.used_byok),
                tokensUsed  |-> JsonNumber(r.tokens_used),
                warning     |-> JsonOption(r.warning)])

\* Serialize for SavedSuggestions (generate.rs 24-30, camelCase).
SavedJson(sv) ==
    JsonObject([response    |-> ResponseJson(sv.response),
                sourceFiles |-> JsonObject([p \in DOMAIN sv.source_files |->
                                               JsonString(sv.source_files[p])]),
                generatedAt |-> JsonNumber(sv.generated_at)])

\* The object has the field and its value is of the type.
HasField(j, k, type) == k \in DOMAIN j.v /\ j.v[k].t = type

\* Deserialize for TestSuggestion: is the value one.
IsSuggestion(j) ==
    /\ j.t = "object"
    /\ HasField(j, "id", "string")
    /\ HasField(j, "filePath", "string")
    /\ HasField(j, "code", "string")

\* Deserialize for GenerateResponse: usedByok has a default, warning is an
\* Option (absent or null is None), unknown fields are ignored.
ResponseFromJson(j) ==
    LET ok == /\ j.t = "object"
              /\ HasField(j, "suggestions", "array")
              /\ \A i \in 1..Len(j.v["suggestions"].v) : IsSuggestion(j.v["suggestions"].v[i])
              /\ HasField(j, "summary", "string")
              /\ HasField(j, "modelUsed", "string")
              /\ HasField(j, "tokensUsed", "number")
              /\ ("usedByok" \in DOMAIN j.v =>
                     /\ j.v["usedByok"].t = "literal"
                     /\ j.v["usedByok"].v \in {"true", "false"})
              /\ ("warning" \in DOMAIN j.v =>
                     \/ j.v["warning"].t = "string"
                     \/ j.v["warning"].t = "literal" /\ j.v["warning"].v = "null")
    IN  IF ~ok THEN [ok |-> FALSE]
        ELSE [ok |-> TRUE,
              response |->
                [suggestions |->
                    [i \in 1..Len(j.v["suggestions"].v) |->
                        LET sg == j.v["suggestions"].v[i].v
                        IN  [id |-> sg["id"].v, file_path |-> sg["filePath"].v,
                             code |-> sg["code"].v]],
                 summary     |-> j.v["summary"].v,
                 model_used  |-> j.v["modelUsed"].v,
                 used_byok   |-> IF "usedByok" \in DOMAIN j.v
                                 THEN j.v["usedByok"].v = "true" ELSE FALSE,
                 tokens_used |-> DigitsValue(j.v["tokensUsed"].v),
                 warning     |-> IF "warning" \in DOMAIN j.v /\ j.v["warning"].t = "string"
                                 THEN j.v["warning"].v ELSE None]]

\* Deserialize for SavedSuggestions: all three fields are required.
SavedFromJson(j) ==
    LET ok == /\ j.t = "object"
              /\ "response" \in DOMAIN j.v
              /\ ResponseFromJson(j.v["response"]).ok
              /\ HasField(j, "sourceFiles", "object")
              /\ \A p \in DOMAIN j.v["sourceFiles"].v : j.v["sourceFiles"].v[p].t = "string"
              /\ HasField(j, "generatedAt", "number")
    IN  IF ~ok THEN [ok |-> FALSE]
        ELSE [ok |-> TRUE,
              saved |-> [response     |-> ResponseFromJson(j.v["response"]).response,
                         source_files |-> [p \in DOMAIN j.v["sourceFiles"].v |->
                                              j.v["sourceFiles"].v[p].v],
                         generated_at |-> DigitsValue(j.v["generatedAt"].v)]]

\* load_suggestions with the legacy schema tried first.
load_suggestionsLegacyFirst(file) ==
    IF ~file.exists THEN [ok |-> FALSE]
    ELSE IF ResponseFromJson(file.doc).ok
    THEN [ok |-> TRUE,
          saved |-> [response     |-> ResponseFromJson(file.doc).response,
                     source_files |-> << >>,
                     generated_at |-> 0]]
    ELSE SavedFromJson(file.doc)

\* load_suggestions (generate.rs 509-529).
load_suggestions(file) ==
    IF ~file.exists THEN [ok |-> FALSE]
    ELSE IF SavedFromJson(file.doc).ok THEN SavedFromJson(file.doc)
    ELSE IF ResponseFromJson(file.doc).ok
    THEN [ok |-> TRUE,
          saved |-> [response     |-> ResponseFromJson(file.doc).response,
                     source_files |-> << >>,
                     generated_at |-> 0]]
    ELSE [ok |-> FALSE]

\* The object without some of its fields.
Without(j, keys) == JsonObject([k \in DOMAIN j.v \ keys |-> j.v[k]])

\* The object with the fields of another one added.
With(j, more) ==
    JsonObject([k \in DOMAIN j.v \cup DOMAIN more.v |->
                   IF k \in DOMAIN more.v THEN more.v[k] ELSE j.v[k]])

\* Response documents: those the program writes, and the same with fields
\* missing or of another type.
ResponseDocs ==
    {Without(ResponseJson(r), keys) :
        r \in Responses,
        keys \in {{}, {"summary"}, {"usedByok"}, {"warning"}, {"suggestions"},
                  {"usedByok", "warning"}}}
    \cup {With(ResponseJson(r), JsonObject([suggestions |-> JsonString("none")])) :
            r \in Responses}

\* The fingerprint maps and timestamps found in a file.
SourceFileDocs ==
    {JsonObject(<< >>), JsonObject([src |-> JsonString(compute_hash("foo"))])}

\* The contents of .vibetap/last-suggestions.json: the current schema, the
\* current schema with a field missing, the legacy schema, the legacy schema
\* with fields of the current one, and something that is not JSON.
SuggestionDocs ==
    LET Current == {JsonObject([response |-> rd, sourceFiles |-> sf,
                                generatedAt |-> JsonNumber(5)]) :
                        rd \in ResponseDocs, sf \in SourceFileDocs}
    IN  Current
        \cup {Without(c, {k}) : c \in Current, k \in {"sourceFiles", "generatedAt"}}
        \cup ResponseDocs
        \cup {With(rd, c) : rd \in ResponseDocs, c \in Current}
        \cup {NotJson}

\* apply (apply.rs 46) or run (run.rs) calls load_suggestions.
LoadSuggestions ==
    /\ gen.pc = "idle"
    /\ gen' = [gen EXCEPT !.pc = "loaded", !.result = load_suggestions(gen.file)]
    /\ UNCHANGED <<fs, historyFile, saved, now, out, procs, parse, diff, store, hush, watch, auth, stream, hook>>

\* The file is missing or holds one of the documents.
InitLoad ==
    /\ hush = NoHush /\ watch = NoWatch /\ auth = NoAuth
    /\ stream = NoStream /\ hook = NoHook
    /\ fs = [p \in Paths |-> IF p \in SourcePaths THEN "foo" ELSE Absent]
    /\ historyFile = NoFile
    /\ saved = [suggestions  |-> Suggestions,
                source_files |-> [p \in SourcePaths |-> compute_hash(fs[p])],
                generated_at |-> 0]
    /\ now = 0
    /\ out = NoOut
    /\ procs = [pid \in Pids |-> Idle]
    /\ parse = NoParse
    /\ diff = NoDiff
    /\ store = NoStore
    /\ \E file \in {NoGen.file} \cup {[exists |-> TRUE, doc |-> d] : d \in SuggestionDocs} :
          gen = [NoGen EXCEPT !.pc = "idle", !.file = file]

NextLoad == LoadSuggestions

\* load_suggestions on the files it may find.
SpecLoad == InitLoad /\ [][NextLoad]_vars

(* ----------------------------- generation ----------------------------- *)

\* The generation calls of a run.
MaxGens == 1

\* The apply invocations of a run with generations.
MaxApplies == 1

\* What apply reads of the loaded SavedSuggestions (apply.rs 46-47, 55-56).
SavedView(sv) ==
    [suggestions  |-> sv.response.suggestions,
     source_files |-> sv.source_files,
     generated_at |-> sv.generated_at]

\* What get_staged_diff returns: NoStagedChanges, or the hunks (their paths)
\* and the changed files of a diff of one or of both source files.
StagedDiffs ==
    {[result |-> "NoStagedChanges", hunks |-> << >>, files_changed |-> << >>],
     [result |-> "Ok", hunks |-> <<[file_path |-> "src"]>>, files_changed |-> <<"src">>],
     [result |-> "Ok", hunks |-> <<[file_path |-> "src"], [file_path |-> "lib"]>>,
      files_changed |-> <<"src", "lib">>]}

\* The values of --file in a generation: none, "./lib" and "x.rs".
GenFilters ==
    {NoFilter,
     [given |-> TRUE, text |-> <<".", "/", "l", "i", "b">>],
     [given |-> TRUE, text |-> <<"x", ".", "r", "s">>]}

\* What the provider answers when it answers.
GenResponses == {FullResponse}

\* The document save_suggestions of generate.rs writes (generate.rs
\* 474-492): the response, the digests of the changed files that can be
\* read, and the time.
SavedDoc(response, source_files, fsx, clk) ==
    SavedJson([response     |-> response,
               source_files |-> [p \in {q \in Range(source_files) : Exists(fsx, q)} |->
                                    compute_hash(fsx[p])],
               generated_at |-> clk])

\* The document save_suggestions of watch.rs writes (watch.rs 326-328): the
\* response alone.
WatchDoc(response) == ResponseJson(response)

\* One generation call: the diff, the --file filter (generate only), the
\* provider's answer, and the save, whose failure is a warning.  generate
\* returns Ok(()) on every path, the watch loop goes on.
Generation(cmd, filters) ==
    LET call == [NoGen.last EXCEPT !.cmd = cmd, !.at = now,
                                   !.returns = IF cmd = "watch" THEN "continue" ELSE "Ok"]
        quit(result) ==
            /\ gen' = [gen EXCEPT !.calls = gen.calls + 1,
                                  !.last = [call EXCEPT !.result = result]]
            /\ UNCHANGED saved
    IN  /\ \E staged \in StagedDiffs :
           IF staged.result # "Ok" \/ staged.hunks = << >> THEN quit("no_changes")
           ELSE \E file \in filters :
                LET KeepHunk(h) == MatchesFilter(h.file_path, file.text)
                    KeepFile(f) == MatchesFilter(f, file.text)
                    hunks == IF file.given THEN SelectSeq(staged.hunks, KeepHunk)
                             ELSE staged.hunks
                    files == IF file.given THEN SelectSeq(staged.files_changed, KeepFile)
                             ELSE staged.files_changed
                IN  IF file.given /\ hunks = << >> THEN quit("no_changes_for_file")
                    ELSE \E answered \in BOOLEAN :
                         IF ~answered THEN quit("provider_error")
                         ELSE \E response \in GenResponses, saveFails \in BOOLEAN :
                              LET doc == IF cmd = "watch" THEN WatchDoc(response)
                                         ELSE SavedDoc(response, files, fs, now)
                                  done == [call EXCEPT
                                             !.provider_ok = TRUE,
                                             !.suggestions = response.suggestions,
                                             !.files_changed = files,
                                             !.fs_at = [p \in SourcePaths |-> fs[p]]]
                              IN  IF saveFails
                                  THEN /\ gen' = [gen EXCEPT
                                                    !.calls = gen.calls + 1,
                                                    !.last = [done EXCEPT !.result = "save_failed"]]
                                       /\ UNCHANGED saved
                                  ELSE /\ gen' = [gen EXCEPT
                                                    !.calls = gen.calls + 1,
                                                    !.file = [exists |-> TRUE, doc |-> doc],
                                                    !.last = [done EXCEPT !.result = "saved"]]
                                       /\ saved' = SavedView(load_suggestions(
                                                       [exists |-> TRUE, doc |-> doc]).saved)
        /\ UNCHANGED <<fs, historyFile, now, out, procs, parse, diff, store, hush, watch, auth, stream, hook>>

\* vibetap generate (generate.rs 63-237).
GenerateCmd ==
    /\ gen.calls < MaxGens
    /\ Generation("generate", GenFilters)

\* One round of the watch loop on a changed diff (watch.rs 112-187).
WatchCmd ==
    /\ gen.calls < MaxGens
    /\ Generation("watch", {NoFilter})

\* ReturnOf with Ok(()) for every outcome.
ReturnOfAlwaysOk(result) == "Ok"

\* What execute returns for an outcome of apply or revert: Err for a
\* malformed selection and for a failed capture or write, Ok(()) otherwise.
ReturnOf(result) ==
    IF result \in {"invalid_selection", "err"} THEN "Err" ELSE "Ok"

\* A working directory with the suggestions of an earlier generation.
InitGen ==
    /\ hush = NoHush /\ watch = NoWatch /\ auth = NoAuth
    /\ stream = NoStream /\ hook = NoHook
    /\ fs = [p \in Paths |-> IF p \in SourcePaths THEN "foo" ELSE Absent]
    /\ historyFile = NoFile
    /\ gen = [NoGen EXCEPT !.pc = "idle",
                           !.file = [exists |-> TRUE,
                                     doc |-> SavedDoc(OtherResponse, <<"src">>, fs, 0)]]
    /\ saved = SavedView(load_suggestions(gen.file).saved)
    /\ now = 0
    /\ out = NoOut
    /\ procs = [pid \in Pids |-> Idle]
    /\ parse = NoParse
    /\ diff = NoDiff
    /\ store = NoStore

\* vibetap apply all, without --force, with or without --yes; the user
\* confirms the apply, and answers the drift prompt either way.
ApplyAllCmd ==
    \E yes \in BOOLEAN, driftAnswer \in BOOLEAN :
        /\ out.seq < MaxApplies
        /\ Apply(<< <<"a", "l", "l">> >>, << >>, yes, FALSE, driftAnswer, TRUE, {0}, {0})

\* The user edits or deletes a source file before an apply.
EditBeforeApply ==
    /\ out.seq < MaxApplies
    /\ EditSource

NextGen ==
    \/ GenerateCmd
    \/ WatchCmd
    \/ EditBeforeApply
    \/ ApplyAllCmd

\* Generations, edits of the source files, and apply invocations.
SpecGen == InitGen /\ [][NextGen]_vars

\* A working directory whose last generation found nothing to suggest, or
\* found the three suggestions.
InitQuit ==
    /\ hush = NoHush /\ watch = NoWatch /\ auth = NoAuth
    /\ stream = NoStream /\ hook = NoHook
    /\ fs = [p \in Paths |-> IF p \in SourcePaths THEN "foo" ELSE Absent]
    /\ historyFile = NoFile
    /\ \E response \in {EmptyResponse, FullResponse} :
          gen = [NoGen EXCEPT !.pc = "idle",
                              !.file = [exists |-> TRUE,
                                        doc |-> SavedDoc(response, <<"src">>, fs, 0)]]
    /\ saved = SavedView(load_suggestions(gen.file).saved)
    /\ now = 0
    /\ out = NoOut
    /\ procs = [pid \in Pids |-> Idle]
    /\ parse = NoParse
    /\ diff = NoDiff
    /\ store = NoStore

NextQuit ==
    \/ GenerateCmd
    \/ ApplyGateCmd
    \/ RevertCmd

\* generate, apply and revert invocations, with those that find nothing
\* to do.
SpecQuit == InitQuit /\ [][NextQuit]_vars

(* ------------------------------- hush --------------------------------- *)

\* A u64 or i64 value is eight bytes, least significant first.
U64Bytes == 8

\* The values of one byte.
Base == 256

\* The value 0 in n bytes.
Zero(n) == [i \in 1..n |-> 0]

\* x * m + c on the bytes of x from position i on: the product's bytes and
\* the carry out of the most significant one.
RECURSIVE MulAdd(_, _, _, _)
MulAdd(x, m, c, i) ==
    IF i > Len(x) THEN [v |-> << >>, carry |-> c]
    ELSE LET t == x[i] * m + c
             r == MulAdd(x, m, t \div Base, i + 1)
         IN  [v |-> <<t % Base>> \o r.v, carry |-> r.carry]

\* x + y + c on the bytes from position i on, and the carry out.
RECURSIVE AddBytes(_, _, _, _)
AddBytes(x, y, c, i) ==
    IF i > Len(x) THEN [v |-> << >>, carry |-> c]
    ELSE LET t == x[i] + y[i] + c
             r == AddBytes(x, y, t \div Base, i + 1)
         IN  [v |-> <<t % Base>> \o r.v, carry |-> r.carry]

\* A small natural number in n bytes.
FromNat(k, n) == MulAdd(Zero(n), 1, k, 1).v

\* str::parse::<u64> of a run of ASCII digits from position i on, acc being
\* the value so far: Err when the value does not fit in a u64.
RECURSIVE ParseU64(_, _, _)
ParseU64(digits, i, acc) ==
    IF i > Len(digits) THEN [ok |-> TRUE, v |-> acc]
    ELSE LET r == MulAdd(acc, 10, DigitVal(digits[i]), 1)
         IN  IF r.carry # 0 THEN [ok |-> FALSE, v |-> acc]
             ELSE ParseU64(digits, i + 1, r.v)

\* The seconds of a unit letter (hush.rs 162-167); 0: not a unit.
UnitSecs(c) ==
    CASE c = "s" -> 1
      [] c = "m" -> 60
      [] c = "h" -> 3600
      [] c = "d" -> 86400
      [] OTHER   -> 0

\* total_secs += num * unit on u64: with overflow checks (a debug build) an
\* overflow panics, without them (a release build) the value wraps.
Accumulate(total_secs, num, unit, checks) ==
    LET prod == MulAdd(num, unit, 0, 1)
        sum  == AddBytes(total_secs, prod.v, 0, 1)
    IN  IF checks /\ (prod.carry # 0 \/ sum.carry # 0)
        THEN [panic |-> TRUE, v |-> total_secs]
        ELSE [panic |-> FALSE, v |-> sum.v]

\* The results of parse_duration.
DurationErr(why) == [kind |-> "err", why |-> why, secs |-> Zero(U64Bytes)]

DurationPanic == [kind |-> "panic", why |-> "overflow", secs |-> Zero(U64Bytes)]

\* hush.rs 178-182: a total of zero is an error.
DurationFinish(total_secs) ==
    IF total_secs = Zero(U64Bytes)
    THEN DurationErr("format")
    ELSE [kind |-> "ok", why |-> "", secs |-> total_secs]

\* The loop of parse_duration over s.chars() from position i on (hush.rs
\* 152-176), then the leftover digits and the zero check.
RECURSIVE DurationLoop(_, _, _, _, _)
DurationLoop(s, i, total_secs, current_num, checks) ==
    IF i > Len(s)
    THEN IF current_num = << >> THEN DurationFinish(total_secs)
         ELSE LET num == ParseU64(current_num, 1, Zero(U64Bytes))
                  a   == Accumulate(total_secs, num.v, 60, checks)
              IN  IF ~num.ok THEN DurationErr("number")
                  ELSE IF a.panic THEN DurationPanic
                  ELSE DurationFinish(a.v)
    ELSE IF IsDigit(s[i])
    THEN DurationLoop(s, i + 1, total_secs, Append(current_num, s[i]), checks)
    ELSE IF current_num = << >>
    THEN DurationLoop(s, i + 1, total_secs, current_num, checks)
    ELSE LET num == ParseU64(current_num, 1, Zero(U64Bytes))
             a   == Accumulate(total_secs, num.v, UnitSecs(s[i]), checks)
         IN  IF ~num.ok THEN DurationErr("number")
             ELSE IF UnitSecs(s[i]) = 0 THEN DurationErr("unit")
             ELSE IF a.panic THEN DurationPanic
             ELSE DurationLoop(s, i + 1, a.v, << >>, checks)

\* char::to_lowercase on the letters the inputs use.
LowerChar(c) ==
    CASE c = "H" -> "h"
      [] c = "M" -> "m"
      [] c = "S" -> "s"
      [] c = "D" -> "d"
      [] c = "F" -> "f"
      [] OTHER   -> c

\* str::to_lowercase
to_lowercase(s) == [i \in 1..Len(s) |-> LowerChar(s[i])]

\* parse_duration (hush.rs 145-183) in a build with or without overflow
\* checks.
parse_duration(s, checks) ==
    DurationLoop(to_lowercase(Trim(s)), 1, Zero(U64Bytes), << >>, checks)

\* The most pieces a duration argument is made of.
MaxDurTokens == 2

\* The pieces the duration arguments are made of: the last two are a number
\* of days whose seconds exceed a u64 and a number that exceeds a u64.
DurationTokens ==
    {<<"2", "h">>, <<"3", "0", "m">>, <<"3", "0">>, <<"5", "x">>, <<"0", "s">>,
     <<"1", "D">>, <<"9", "0", "s">>, <<"h">>, <<" ">>,
     <<"2", "1", "3", "5", "0", "3", "9", "8", "2", "3", "3", "4", "6", "0", "2", "d">>,
     <<"1", "8", "4", "4", "6", "7", "4", "4", "0", "7", "3", "7", "0", "9", "5", "5",
       "1", "6", "1", "6">>}

\* The duration arguments: up to MaxDurTokens pieces, one after the other.
DurationInputs ==
    UNION {{Flatten(ts) : ts \in [1..n -> DurationTokens]} : n \in 0..MaxDurTokens}

\* A call of parse_duration.
ParseDurationCall ==
    /\ hush.pc = "ready"
    /\ hush' = [hush EXCEPT !.pc = "parsed",
                            !.result = parse_duration(hush.input, hush.checks)]
    /\ UNCHANGED <<fs, historyFile, saved, now, out, procs, parse, diff, store, gen, watch, auth, stream, hook>>

\* A duration argument and a build.
InitDuration ==
    /\ fs = [p \in Paths |-> Absent]
    /\ historyFile = NoFile
    /\ saved = [suggestions |-> << >>, source_files |-> << >>, generated_at |-> 0]
    /\ now = 0
    /\ out = NoOut
    /\ procs = [pid \in Pids |-> Idle]
    /\ parse = NoParse
    /\ diff = NoDiff
    /\ store = NoStore
    /\ gen = NoGen
    /\ watch = NoWatch /\ auth = NoAuth /\ stream = NoStream /\ hook = NoHook
    /\ \E input \in DurationInputs, checks \in BOOLEAN :
          hush = [pc |-> "ready", input |-> input, checks |-> checks,
                  result |-> DurationErr("none")]

NextDuration == ParseDurationCall

\* parse_duration on the arguments it may get.
SpecDuration == InitDuration /\ [][NextDuration]_vars

\* The sign bit of an i64.
Negative(x) == x[Len(x)] >= Base \div 2

\* a > b on unsigned values of the same width.
UnsignedGT(a, b) ==
    \E i \in 1..Len(a) : a[i] > b[i] /\ \A j \in i + 1..Len(a) : a[j] = b[j]

\* a > b on i64.
SignedGT(a, b) ==
    IF Negative(a) # Negative(b) THEN Negative(b) ELSE UnsignedGT(a, b)

\* -x in two's complement.
Neg(x) == AddBytes([i \in 1..Len(x) |-> Base - 1 - x[i]], Zero(Len(x)), 1, 1).v

\* a + b on i64: the wrapped sum, and whether it overflowed.
I64Add(a, b) ==
    LET v == AddBytes(a, b, 0, 1).v
    IN  [v |-> v, overflow |-> Negative(a) = Negative(b) /\ Negative(v) # Negative(a)]

\* a - b on i64: the wrapped difference, and whether it overflowed.
I64Sub(a, b) ==
    LET v == AddBytes(a, Neg(b), 0, 1).v
    IN  [v |-> v, overflow |-> Negative(a) # Negative(b) /\ Negative(v) # Negative(a)]

\* x / m and x % m for an unsigned x and a small m.
DivSmall(x, m) ==
    LET rem[i \in 1..Len(x) + 1] ==
            IF i = Len(x) + 1 THEN 0 ELSE (rem[i + 1] * Base + x[i]) % m
    IN  [q |-> [i \in 1..Len(x) |-> (rem[i + 1] * Base + x[i]) \div m], r |-> rem[1]]

\* The decimal digits of an unsigned value, none for 0.
RECURSIVE DecDigits(_)
DecDigits(x) ==
    IF x = Zero(Len(x)) THEN << >>
    ELSE DecDigits(DivSmall(x, 10).q) \o <<Digits[DivSmall(x, 10).r + 1]>>

\* The JSON number serde_json writes for an i64.
I64Text(x) ==
    IF x = Zero(Len(x)) THEN <<"0">>
    ELSE IF Negative(x) THEN <<"-">> \o DecDigits(Neg(x))
    ELSE DecDigits(x)

\* The i64 serde_json reads from a JSON integer: Err when out of range.
I64FromText(text) ==
    LET neg    == text # << >> /\ text[1] = "-"
        digits == IF neg THEN Tail(text) ELSE text
        mag    == ParseU64(digits, 1, Zero(U64Bytes))
    IN  IF digits = << >> \/ ~mag.ok THEN [ok |-> FALSE, v |-> Zero(U64Bytes)]
        ELSE IF neg
        THEN IF Negative(mag.v) /\ mag.v # Neg(mag.v)
             THEN [ok |-> FALSE, v |-> Zero(U64Bytes)]
             ELSE [ok |-> TRUE, v |-> Neg(mag.v)]
        ELSE IF Negative(mag.v) THEN [ok |-> FALSE, v |-> Zero(U64Bytes)]
        ELSE [ok |-> TRUE, v |-> mag.v]

\* The most hush commands of a run, and the last clock value.
MaxHushCmds == 2

MaxHushTime == 4

\* The duration arguments of the hush command: one of zero seconds, one
\* whose seconds do not fit an i64.
HushDurations ==
    {<<"1", "s">>, <<"2", "s">>, <<"0", "s">>, <<"F", "o", "r", "e", "v", "e", "r">>,
     <<"1", "0", "6", "7", "5", "1", "9", "9", "1", "1", "6", "7", "3", "0", "1", "d">>}

\* parse_duration over the duration arguments, for both builds.
HushParsed ==
    [checks \in BOOLEAN |-> [d \in HushDurations |-> parse_duration(d, checks)]]

\* The values hush_until takes: 0, and the clock plus a parsed duration.
UntilValues ==
    {Zero(U64Bytes)} \cup
    {AddBytes(FromNat(t, U64Bytes), HushParsed[c][d].secs, 0, 1).v :
        t \in 1..MaxHushTime, c \in BOOLEAN, d \in HushDurations}

\* I64Text over the values hush_until takes.
Numerals == [x \in UntilValues |-> I64Text(x)]

\* I64FromText over their numerals.
NumeralValues == [text \in {Numerals[x] : x \in UntilValues} |-> I64FromText(text)]

\* I64Text, read from Numerals where it holds the result.
I64TextOf(x) == IF x \in DOMAIN Numerals THEN Numerals[x] ELSE I64Text(x)

\* I64FromText, read from NumeralValues where it holds the result.
I64Of(text) ==
    IF text \in DOMAIN NumeralValues THEN NumeralValues[text] ELSE I64FromText(text)

\* HushState.hush_until: None, or Some of an i64.
Forever == [some |-> FALSE, until |-> Zero(U64Bytes)]

Until(x) == [some |-> TRUE, until |-> x]

\* .vibetap/state.json does not exist.
NoStateFile == [exists |-> FALSE, doc |-> NotJson]

\* Serialize for HushState (hush.rs 22-26).
StateJson(state) ==
    JsonObject([k \in {"hush_until"} |->
                   IF state.some THEN [t |-> "number", v |-> I64TextOf(state.until)]
                   ELSE [t |-> "literal", v |-> "null"]])

\* Deserialize for HushState: a missing or null hush_until is None.
StateFromJson(j) ==
    IF j.t # "object" THEN [ok |-> FALSE, state |-> Forever]
    ELSE IF "hush_until" \notin DOMAIN j.v THEN [ok |-> TRUE, state |-> Forever]
    ELSE LET f == j.v["hush_until"]
         IN  IF f.t = "literal" /\ f.v = "null" THEN [ok |-> TRUE, state |-> Forever]
             ELSE IF f.t = "number" /\ I64Of(f.v).ok
             THEN [ok |-> TRUE, state |-> Until(I64Of(f.v).v)]
             ELSE [ok |-> FALSE, state |-> Forever]

\* load_state (hush.rs 185-193): HushState::default(), whose hush_until is
\* None, when the file does not exist.
load_state(file) ==
    IF ~file.exists THEN [ok |-> TRUE, state |-> Forever]
    ELSE StateFromJson(file.doc)

\* save_state (hush.rs 195-206)
save_state(state) == [exists |-> TRUE, doc |-> StateJson(state)]

\* HushState::is_hushed at clock value clk (hush.rs 30-42).
is_hushed(state, clk) ==
    IF ~state.some THEN TRUE
    ELSE IF state.until = Zero(U64Bytes) THEN FALSE
    ELSE SignedGT(state.until, FromNat(clk, U64Bytes))

\* HushState::remaining at clock value clk (hush.rs 45-66): None, the text,
\* whose numbers stand for their numerals, or a panic on overflow in a build
\* with overflow checks.
remaining(state, clk, checks) ==
    LET diff_    == I64Sub(state.until, FromNat(clk, U64Bytes))
        rem      == diff_.v
        below(k) == SignedGT(FromNat(k, U64Bytes), rem)
        none     == [kind |-> "none", fmt |-> "", a |-> Zero(U64Bytes), b |-> Zero(U64Bytes)]
    IN  IF ~state.some THEN [none EXCEPT !.kind = "some", !.fmt = "forever"]
        ELSE IF state.until = Zero(U64Bytes) THEN none
        ELSE IF checks /\ diff_.overflow THEN [none EXCEPT !.kind = "panic"]
        ELSE IF below(1) THEN none
        ELSE IF below(60) THEN [none EXCEPT !.kind = "some", !.fmt = "{}s", !.a = rem]
        ELSE IF below(3600)
        THEN [none EXCEPT !.kind = "some", !.fmt = "{}m", !.a = DivSmall(rem, 60).q]
        ELSE [none EXCEPT !.kind = "some", !.fmt = "{}h {}m",
                          !.a = DivSmall(rem, 3600).q,
                          !.b = DivSmall(FromNat(DivSmall(rem, 3600).r, U64Bytes), 60).q]

\* No hush command has run.
NoHushCmd == [cmd |-> "none", at |-> 0, secs |-> Zero(U64Bytes), result |-> "none"]

\* No status has been shown.
NoStatus == [valid |-> FALSE, at |-> 0, printed |-> "none"]

\* hush::execute with a duration argument (hush.rs 78-112).
HushSet ==
    \E duration \in HushDurations :
        LET forever == to_lowercase(duration) = <<"f", "o", "r", "e", "v", "e", "r">>
            d       == HushParsed[hush.checks][duration]
            sum     == I64Add(FromNat(hush.now, U64Bytes), d.secs)
            state   == IF forever THEN Forever ELSE Until(sum.v)
            saves   == forever \/ (d.kind = "ok" /\ ~(hush.checks /\ sum.overflow))
            shown   == remaining(state, hush.now, hush.checks)
            result  == IF forever THEN "ok"
                       ELSE IF d.kind = "err" THEN "err"
                       ELSE IF ~saves \/ shown.kind = "panic" THEN "panic"
                       ELSE "ok"
        IN  /\ hush.pc = "idle" /\ hush.cmds < MaxHushCmds
            /\ hush' = [hush EXCEPT
                           !.cmds = hush.cmds + 1,
                           !.file = IF saves THEN save_state(state) ELSE hush.file,
                           !.status = NoStatus,
                           !.last = [cmd    |-> IF forever THEN "forever" ELSE "duration",
                                     at     |-> hush.now,
                                     secs   |-> IF forever THEN Zero(U64Bytes) ELSE d.secs,
                                     result |-> result]]
            /\ UNCHANGED <<fs, historyFile, saved, now, out, procs, parse, diff, store, gen, watch, auth, stream, hook>>

\* hush --clear (hush.rs 134-143).
HushClear ==
    /\ hush.pc = "idle" /\ hush.cmds < MaxHushCmds
    /\ hush' = [hush EXCEPT
                   !.cmds = hush.cmds + 1,
                   !.file = save_state(Until(Zero(U64Bytes))),
                   !.status = NoStatus,
                   !.last = [cmd |-> "clear", at |-> hush.now, secs |-> Zero(U64Bytes),
                             result |-> "ok"]]
    /\ UNCHANGED <<fs, historyFile, saved, now, out, procs, parse, diff, store, gen, watch, auth, stream, hook>>

\* hush --status (hush.rs 115-132).
HushStatus ==
    LET loaded == load_state(hush.file)
        shown  == remaining(loaded.state, hush.now, hush.checks)
    IN  /\ hush.pc = "idle" /\ ~hush.status.valid
        /\ hush' = [hush EXCEPT
                       !.status = [valid   |-> TRUE,
                                   at      |-> hush.now,
                                   printed |-> IF ~loaded.ok THEN "err"
                                               ELSE IF ~is_hushed(loaded.state, hush.now)
                                               THEN "Not hushed"
                                               ELSE IF shown.kind = "panic" THEN "panic"
                                               ELSE IF shown.kind = "some" THEN "Hushed"
                                               ELSE "Not hushed"]]
        /\ UNCHANGED <<fs, historyFile, saved, now, out, procs, parse, diff, store, gen, watch, auth, stream, hook>>

\* A second passes.
HushTick ==
    /\ hush.pc = "idle" /\ hush.now < MaxHushTime
    /\ hush' = [hush EXCEPT !.now = hush.now + 1, !.status = NoStatus]
    /\ UNCHANGED <<fs, historyFile, saved, now, out, procs, parse, diff, store, gen, watch, auth, stream, hook>>

\* The start of watch::execute (watch.rs 36-52): it returns at once when the
\* state is hushed, and goes on to watch otherwise.
WatchStart ==
    LET loaded == load_state(hush.file)
    IN  /\ hush.pc = "idle" /\ watch.pc = "idle"
        /\ watch' = [watch EXCEPT
                        !.pc = IF ~loaded.ok THEN "err"
                               ELSE IF is_hushed(loaded.state, hush.now) THEN "hushed"
                               ELSE "started",
                        !.state_file = hush.file.exists,
                        !.at = hush.now]
        /\ UNCHANGED <<fs, historyFile, saved, now, out, procs, parse, diff, store, gen, hush, auth, stream, hook>>

\* watch::execute has returned; the command may be run again.
WatchReturn ==
    /\ watch.pc \in {"hushed", "err"}
    /\ watch' = [watch EXCEPT !.pc = "idle"]
    /\ UNCHANGED <<fs, historyFile, saved, now, out, procs, parse, diff, store, gen, hush, auth, stream, hook>>

\* A working directory in which hush was never invoked, at some time after
\* the epoch, and a build with or without overflow checks.
InitHush ==
    /\ fs = [p \in Paths |-> Absent]
    /\ historyFile = NoFile
    /\ saved = [suggestions |-> << >>, source_files |-> << >>, generated_at |-> 0]
    /\ now = 0
    /\ out = NoOut
    /\ procs = [pid \in Pids |-> Idle]
    /\ parse = NoParse
    /\ diff = NoDiff
    /\ store = NoStore
    /\ gen = NoGen
    /\ auth = NoAuth /\ stream = NoStream /\ hook = NoHook
    /\ watch = [pc |-> "idle", state_file |-> FALSE, at |-> 0]
    /\ \E checks \in BOOLEAN :
          hush = [pc |-> "idle", file |-> NoStateFile, now |-> 1, checks |-> checks,
                  cmds |-> 0, last |-> NoHushCmd, status |-> NoStatus]

NextHush ==
    \/ HushSet
    \/ HushClear
    \/ HushStatus
    \/ HushTick
    \/ WatchStart
    \/ WatchReturn

\* The hush commands, the clock and the start of the watch command.
SpecHush == InitHush /\ [][NextHush]_vars

(* ------------------------------ watch loop ---------------------------- *)

\* The most generation requests and hush commands of a run of the watch loop.
MaxRequests == 2

MaxWatchHush == 1

\* The digits of {:x}.
HexDigits ==
    <<"0", "1", "2", "3", "4", "5", "6", "7", "8", "9", "a", "b", "c", "d", "e", "f">>

\* format!("{:x}", hash) for a u64: its hexadecimal digits, most significant
\* first, without leading zeros.
ToHex(x) ==
    LET all  == [k \in 1..2 * Len(x) |->
                    LET byte == x[Len(x) - ((k - 1) \div 2)]
                    IN  HexDigits[(IF k % 2 = 1 THEN byte \div 16 ELSE byte % 16) + 1]]
        keep == {k \in 1..Len(all) : all[k] # "0"}
    IN  IF keep = {} THEN <<"0">>
        ELSE SubSeq(all, CHOOSE k \in keep : \A j \in keep : k <= j, Len(all))

\* hash.wrapping_mul(31).wrapping_add(byte) over the bytes from position i on.
RECURSIVE HashBytes(_, _, _)
HashBytes(bytes, i, hash) ==
    IF i > Len(bytes) THEN hash
    ELSE HashBytes(bytes, i + 1, MulAdd(hash, 31, bytes[i], 1).v)

\* The bytes of the contents of the hunks, one hunk after the other.
HunkBytes(hunks) == Flatten([i \in 1..Len(hunks) |-> hunks[i].content])

\* get_diff_hash (watch.rs 207-227) of what get_staged_diff returns: the
\* empty string when it is an Err.
get_diff_hash(d) ==
    IF d.result # "Ok" THEN << >>
    ELSE ToHex(HashBytes(HunkBytes(d.hunks), 1, Zero(U64Bytes)))

\* What get_staged_diff may return while the loop runs: an Err, or hunks
\* whose contents are the bytes of "+Aa", "+BB" and "+ab".
WatchDiffs ==
    {[result |-> "NoStagedChanges", hunks |-> << >>],
     [result |-> "NotARepo", hunks |-> << >>],
     [result |-> "Ok", hunks |-> <<[file_path |-> "src", content |-> <<43, 65, 97>>]>>],
     [result |-> "Ok", hunks |-> <<[file_path |-> "src", content |-> <<43, 66, 66>>]>>],
     [result |-> "Ok", hunks |-> <<[file_path |-> "src", content |-> <<43>>],
                                   [file_path |-> "lib", content |-> <<97, 98>>]>>]}

\* str::contains
Contains(s, sub) == \E i \in 1..Len(s) - Len(sub) + 1 : SubSeq(s, i, i + Len(sub) - 1) = sub

\* is_ignored_path (watch.rs 229-244), on the directories and suffixes the
\* event paths use.
is_ignored_path(path) ==
    \/ Contains(path, <<".", "g", "i", "t", "/">>)
    \/ Contains(path, <<".", "v", "i", "b", "e", "t", "a", "p", "/">>)
    \/ Contains(path, <<"t", "a", "r", "g", "e", "t", "/">>)
    \/ EndsWith(path, <<".", "l", "o", "g">>)

\* The batches of debounced events the loop may receive.
WatchBatches ==
    {<<[kind |-> "Any", path |-> <<"s", "r", "c", "/", "a">>]>>,
     <<[kind |-> "Any", path |-> <<".", "g", "i", "t", "/", "x">>]>>,
     <<[kind |-> "AnyContinuous", path |-> <<"s", "r", "c", "/", "a">>]>>,
     <<[kind |-> "Any", path |-> <<"a", ".", "l", "o", "g">>],
       [kind |-> "Any", path |-> <<"l", "i", "b">>]>>}

\* events.iter().any(..) of watch.rs 91-99.
Relevant(events) ==
    \E i \in 1..Len(events) : events[i].kind = "Any" /\ ~is_ignored_path(events[i].path)

\* The first half of an iteration of the loop (watch.rs 82-110): a batch
\* arrives, the hush state is loaded and checked, the events are filtered,
\* the diff is hashed and compared, and last_diff_hash is set.
WatchRecv ==
    \E events \in WatchBatches :
        LET loaded   == load_state(hush.file)
            new_hash == get_diff_hash(watch.index)
        IN  /\ watch.pc = "recv" /\ Len(watch.requests) < MaxRequests
            /\ watch' =
                  IF ~loaded.ok THEN [watch EXCEPT !.pc = "err"]
                  ELSE IF is_hushed(loaded.state, hush.now) THEN watch
                  ELSE IF ~Relevant(events) THEN watch
                  ELSE IF new_hash = watch.last_diff_hash THEN watch
                  ELSE [watch EXCEPT !.pc = "diff",
                                     !.last_diff_hash = new_hash,
                                     !.iter = [hushed      |-> FALSE,
                                               relevant    |-> Relevant(events),
                                               hash_differs |-> TRUE]]
            /\ UNCHANGED <<fs, historyFile, saved, now, out, procs, parse, diff, store, gen, hush, auth, stream, hook>>

\* rx.recv() returns a watcher error (the loop goes on) or a channel error
\* (the loop ends), watch.rs 192-200.
WatchRecvError ==
    \E channel \in BOOLEAN :
        /\ watch.pc = "recv"
        /\ watch' = [watch EXCEPT !.pc = IF channel THEN "stopped" ELSE "recv"]
        /\ UNCHANGED <<fs, historyFile, saved, now, out, procs, parse, diff, store, gen, hush, auth, stream, hook>>

\* The second half of the iteration (watch.rs 112-190): the diff is read
\* again, and unless that fails the request is sent; the response is saved
\* in the legacy form, a failed save being a warning.
WatchGenerate ==
    \E answered \in BOOLEAN, saveFails \in BOOLEAN :
        LET d       == watch.index
            sends   == d.result = "Ok" /\ d.hunks # << >>
            request == [hunks |-> d.hunks,
                        iter  |-> watch.iter,
                        hushed_at_send |-> is_hushed(load_state(hush.file).state, hush.now)]
            doc     == WatchDoc(FullResponse)
        IN  /\ watch.pc = "diff"
            /\ ~sends => ~answered /\ ~saveFails
            /\ ~answered => ~saveFails
            /\ watch' = [watch EXCEPT
                           !.pc = IF d.result = "NotARepo" THEN "stopped" ELSE "recv",
                           !.requests = IF sends THEN Append(watch.requests, request)
                                        ELSE watch.requests]
            /\ IF sends /\ answered /\ ~saveFails
               THEN /\ gen' = [gen EXCEPT !.file = [exists |-> TRUE, doc |-> doc]]
                    /\ saved' = SavedView(load_suggestions([exists |-> TRUE, doc |-> doc]).saved)
               ELSE UNCHANGED <<gen, saved>>
            /\ UNCHANGED <<fs, historyFile, now, out, procs, parse, diff, store, hush, auth, stream, hook>>

\* The staged changes become other ones (git add, git reset, a commit).
StageChange ==
    \E d \in WatchDiffs :
        /\ watch.pc \in {"recv", "diff"}
        /\ d # watch.index
        /\ watch' = [watch EXCEPT !.index = d]
        /\ UNCHANGED <<fs, historyFile, saved, now, out, procs, parse, diff, store, gen, hush, auth, stream, hook>>

\* The watch loop has started (the state file says not hushed) on some
\* staged changes, whose hash is the initial last_diff_hash (watch.rs 67).
InitWatch ==
    /\ fs = [p \in Paths |-> IF p \in SourcePaths THEN "foo" ELSE Absent]
    /\ historyFile = NoFile
    /\ saved = [suggestions |-> << >>, source_files |-> << >>, generated_at |-> 0]
    /\ now = 0
    /\ out = NoOut
    /\ procs = [pid \in Pids |-> Idle]
    /\ parse = NoParse
    /\ diff = NoDiff
    /\ store = NoStore
    /\ gen = [NoGen EXCEPT !.pc = "idle"]
    /\ auth = NoAuth /\ stream = NoStream /\ hook = NoHook
    /\ hush = [pc |-> "idle", file |-> save_state(Until(Zero(U64Bytes))), now |-> 1,
               checks |-> FALSE, cmds |-> 0, last |-> NoHushCmd, status |-> NoStatus]
    /\ \E d \in WatchDiffs \ {[result |-> "NotARepo", hunks |-> << >>]} :
          watch = [pc |-> "recv", index |-> d, last_diff_hash |-> get_diff_hash(d),
                   requests |-> << >>,
                   iter |-> [hushed |-> FALSE, relevant |-> FALSE, hash_differs |-> FALSE]]

\* One hush command runs while the loop does.
WatchHush ==
    /\ hush.cmds < MaxWatchHush
    /\ (HushSet \/ HushClear)

NextWatch ==
    \/ WatchRecv
    \/ WatchRecvError
    \/ WatchGenerate
    \/ StageChange
    \/ WatchHush

\* The watch loop, the staged changes and the hush commands.
SpecWatch == InitWatch /\ [][NextWatch]_vars

(* ------------------------------ credentials --------------------------- *)

\* The most calls of get_valid_access_token in a run.
MaxAuthCalls == 2

\* The buffer of is_token_expired, in seconds (config.rs 198).
ExpiryBuffer == 300

\* Option::None of GlobalConfig.tokens.
NoTokens == [some |-> FALSE, access_token |-> "", refresh_token |-> None,
             expires_at |-> << >>, auth_type |-> ""]

\* Some(AuthTokens); expires_at is << >> for None and <<t>> for Some(t).
Tokens_(access_token, refresh_token, expires_at, auth_type) ==
    [some |-> TRUE, access_token |-> access_token, refresh_token |-> refresh_token,
     expires_at |-> expires_at, auth_type |-> auth_type]

\* The expiry times around the clock value 1000 of the credential runs:
\* the third is the first one that is not within the buffer.
ExpiryTimes == {900, 1299, 1300, 5000}

\* The tokens the global configuration may hold: none, an API key, and OAuth
\* tokens with or without a refresh token and an expiry time.
StoredTokens ==
    {NoTokens, Tokens_("k0", None, << >>, "api_key"), Tokens_("k0", None, <<900>>, "api_key")}
    \cup {Tokens_("a0", r, e, "oauth") :
               r \in {None, "r0"}, e \in {<<x>> : x \in ExpiryTimes} \cup {<< >>}}

\* The tokens a refresh returns.
NewTokens == Tokens_("a1", "r1", <<9000>>, "oauth")

\* ~/.config/vibetap/config.toml does not exist.
NoConfigFile == [exists |-> FALSE, doc |-> << >>]

\* toml::to_string_pretty of a GlobalConfig (config.rs 39-43, 30-36): a key
\* is written for every value that is not None.
ConfigToml(config) ==
    LET tk == config.tokens
        top == IF config.api_url = None THEN << >>
               ELSE [k \in {"api_url"} |-> config.api_url]
        tokens_table ==
            [k \in {"access_token", "auth_type"}
                   \cup (IF tk.refresh_token = None THEN {} ELSE {"refresh_token"})
                   \cup (IF tk.expires_at = << >> THEN {} ELSE {"expires_at"}) |->
                CASE k = "access_token"  -> tk.access_token
                  [] k = "auth_type"     -> tk.auth_type
                  [] k = "refresh_token" -> tk.refresh_token
                  [] k = "expires_at"    -> tk.expires_at[1]]
    IN  IF tk.some THEN [top |-> top, tokens |-> <<tokens_table>>]
        ELSE [top |-> top, tokens |-> << >>]

\* toml::from_str for GlobalConfig: a missing key is None; the [tokens]
\* table needs access_token and auth_type.
ConfigFromToml(doc) ==
    LET t == doc.tokens[1]
        opt(k) == IF k \in DOMAIN t THEN t[k] ELSE None
        expires_at == IF "expires_at" \in DOMAIN t THEN <<t["expires_at"]>> ELSE << >>
    IN  IF doc.tokens # << >> /\ ~({"access_token", "auth_type"} \subseteq DOMAIN t)
        THEN [ok |-> FALSE, api_url |-> None, tokens |-> NoTokens]
        ELSE [ok |-> TRUE,
              api_url |-> IF "api_url" \in DOMAIN doc.top THEN doc.top["api_url"] ELSE None,
              tokens  |-> IF doc.tokens = << >> THEN NoTokens
                          ELSE Tokens_(t["access_token"], opt("refresh_token"),
                                       expires_at, t["auth_type"])]

\* Config::load_global (config.rs 122-131): the default configuration when
\* the file does not exist.
load_global(file) ==
    IF ~file.exists THEN [ok |-> TRUE, api_url |-> None, tokens |-> NoTokens]
    ELSE ConfigFromToml(file.doc)

\* Config::save_tokens (config.rs 149-163)
save_tokens(tokens, api_url) ==
    [exists |-> TRUE, doc |-> ConfigToml([api_url |-> api_url, tokens |-> tokens])]

\* Config::clear_tokens (config.rs 166-180): an existing file is rewritten
\* without URL and tokens.
clear_tokens(file) ==
    IF file.exists
    THEN [exists |-> TRUE, doc |-> ConfigToml([api_url |-> None, tokens |-> NoTokens])]
    ELSE file

\* Config::api_url (config.rs 89-94)
api_url(config) == IF config.api_url = None THEN "https://vibetap.dev" ELSE config.api_url

\* Config::is_token_expired (config.rs 183-205) at clock value clk.
is_token_expired(tokens, clk) ==
    IF ~tokens.some THEN TRUE
    ELSE IF tokens.auth_type = "api_key" THEN FALSE
    ELSE IF tokens.expires_at = << >> THEN FALSE
    ELSE tokens.expires_at[1] - ExpiryBuffer < clk

\* The texts of the refresh endpoint's error bodies and messages.
AlreadyUsed == <<"R", "e", "f", "r", "e", "s", "h", " ", "T", "o", "k", "e", "n", " ", "A", "l", "r", "e", "a", "d", "y", " ", "U", "s", "e", "d">>

InvalidRefreshToken == <<"I", "n", "v", "a", "l", "i", "d", " ", "R", "e", "f", "r", "e", "s", "h", " ", "T", "o", "k", "e", "n">>

InvalidGrant == <<"I", "n", "v", "a", "l", "i", "d", " ", "g", "r", "a", "n", "t">>

TokenExpired == <<"t", "o", "k", "e", "n", " ", "e", "x", "p", "i", "r", "e", "d">>

ServerBusy == <<"b", "u", "s", "y">>

ErrorTexts == {AlreadyUsed, InvalidRefreshToken, InvalidGrant, TokenExpired, ServerBusy}

\* What the refresh request may come to: no response, a status that is not
\* a success with a body, a success whose body is not a RefreshResponse, one
\* with success = false and a message or none, one with success = true and
\* no data, and one with the new tokens.
RefreshOutcomes ==
    {[kind |-> "no_response", status |-> 0, text |-> << >>]}
    \cup {[kind |-> "failure", status |-> s, text |-> b] :
             s \in {400, 401}, b \in ErrorTexts}
    \cup {[kind |-> "unparsable", status |-> 200, text |-> << >>],
          [kind |-> "no_data", status |-> 200, text |-> << >>],
          [kind |-> "tokens", status |-> 200, text |-> << >>],
          [kind |-> "rejected", status |-> 200, text |-> <<"U", "n", "k", "n", "o", "w", "n", " ", "e", "r", "r", "o", "r">>]}
    \cup {[kind |-> "rejected", status |-> 200, text |-> m] : m \in ErrorTexts}

\* No refresh request is made.
NoRefresh == [kind |-> "none", status |-> 0, text |-> << >>]

\* Does the code clear the stored tokens for this answer (config.rs 251-254,
\* 278).
ClearsTokens(outcome) ==
    \/ /\ outcome.kind = "failure"
       /\ \/ outcome.status = 401
          \/ Contains(outcome.text, <<"A", "l", "r", "e", "a", "d", "y", " ", "U", "s", "e", "d">>)
          \/ Contains(outcome.text, <<"I", "n", "v", "a", "l", "i", "d", " ", "R", "e", "f", "r", "e", "s", "h", " ", "T", "o", "k", "e", "n">>)
          \/ Contains(outcome.text, <<"e", "x", "p", "i", "r", "e", "d">>)
    \/ /\ outcome.kind = "rejected"
       /\ \/ Contains(outcome.text, <<"A", "l", "r", "e", "a", "d", "y", " ", "U", "s", "e", "d">>)
          \/ Contains(outcome.text, <<"I", "n", "v", "a", "l", "i", "d">>)
          \/ Contains(outcome.text, <<"e", "x", "p", "i", "r", "e", "d">>)

\* refresh_access_token that takes the new tokens although they could not
\* be saved.
refresh_access_tokenSaveIgnored(config, file, outcome, saveFails, clearFails) ==
    LET cleared == IF clearFails THEN file ELSE clear_tokens(file)
        err(e, f) == [ok |-> FALSE, err |-> e, config |-> config, file |-> f,
                      requested |-> TRUE]
    IN  IF config.tokens.auth_type = "api_key"
        THEN [ok |-> TRUE, err |-> "", config |-> config, file |-> file, requested |-> FALSE]
        ELSE IF config.tokens.refresh_token = None
        THEN [err("RefreshFailed", file) EXCEPT !.requested = FALSE]
        ELSE IF outcome.kind = "no_response" THEN err("Http", file)
        ELSE IF outcome.kind \in {"failure", "rejected"}
        THEN err("RefreshFailed", IF ClearsTokens(outcome) THEN cleared ELSE file)
        ELSE IF outcome.kind \in {"unparsable", "no_data"} THEN err("RefreshFailed", file)
        ELSE [ok |-> TRUE, err |-> "",
              config |-> [config EXCEPT !.tokens = NewTokens],
              file |-> IF saveFails THEN file ELSE save_tokens(NewTokens, api_url(config)),
              requested |-> TRUE]

\* Config::refresh_access_token (config.rs 222-310) on the in-memory
\* configuration and the configuration file, for an answer of the endpoint
\* and the fate of the write it leads to.
refresh_access_token(config, file, outcome, saveFails, clearFails) ==
    LET cleared == IF clearFails THEN file ELSE clear_tokens(file)
        err(e, f) == [ok |-> FALSE, err |-> e, config |-> config, file |-> f,
                      requested |-> TRUE]
    IN  IF config.tokens.auth_type = "api_key"
        THEN [ok |-> TRUE, err |-> "", config |-> config, file |-> file, requested |-> FALSE]
        ELSE IF config.tokens.refresh_token = None
        THEN [err("RefreshFailed", file) EXCEPT !.requested = FALSE]
        ELSE IF outcome.kind = "no_response" THEN err("Http", file)
        ELSE IF outcome.kind \in {"failure", "rejected"}
        THEN err("RefreshFailed", IF ClearsTokens(outcome) THEN cleared ELSE file)
        ELSE IF outcome.kind \in {"unparsable", "no_data"} THEN err("RefreshFailed", file)
        ELSE IF saveFails THEN err("Read", file)
        ELSE [ok |-> TRUE, err |-> "",
              config |-> [config EXCEPT !.tokens = NewTokens],
              file |-> save_tokens(NewTokens, api_url(config)),
              requested |-> TRUE]

\* No call of get_valid_access_token has been made.
NoAuthCall ==
    [before |-> NoTokens, file_before |-> NoConfigFile, outcome |-> NoRefresh,
     save_failed |-> FALSE, clear_failed |-> FALSE, requested |-> FALSE,
     ok |-> FALSE, err |-> "", token |-> ""]

\* Config::load (config.rs 80-86) at the start of a command.
ConfigLoad ==
    LET global == load_global(auth.file)
    IN  /\ auth.pc = "start"
        /\ auth' = IF ~global.ok THEN [auth EXCEPT !.pc = "err"]
                   ELSE [auth EXCEPT !.pc = "loaded",
                                     !.config = [api_url |-> global.api_url,
                                                 tokens  |-> global.tokens]]
        /\ UNCHANGED <<fs, historyFile, saved, now, out, procs, parse, diff, store, gen, hush, watch, stream, hook>>

\* Config::get_valid_access_token (config.rs 208-219).  The environment
\* chooses the answer to a refresh request and whether the write of the
\* configuration file it leads to fails.
GetValidAccessToken ==
    \E outcome \in RefreshOutcomes, saveFails \in BOOLEAN, clearFails \in BOOLEAN :
        LET config  == auth.config
            refresh == config.tokens.some /\ is_token_expired(config.tokens, auth.now)
            r       == refresh_access_token(config, auth.file, outcome, saveFails, clearFails)
            call    == [NoAuthCall EXCEPT !.before = config.tokens,
                                          !.file_before = auth.file]
        IN  /\ auth.pc = "loaded" /\ auth.calls < MaxAuthCalls
            /\ (~refresh \/ ~r.requested) => outcome = [kind |-> "no_response", status |-> 0, text |-> << >>]
            /\ (outcome.kind # "tokens" \/ ~refresh) => ~saveFails
            /\ (~ClearsTokens(outcome) \/ ~refresh \/ ~r.requested) => ~clearFails
            /\ auth' =
                  IF ~config.tokens.some
                  THEN [auth EXCEPT !.calls = auth.calls + 1,
                                    !.last = [call EXCEPT !.err = "NotAuthenticated"]]
                  ELSE IF ~refresh
                  THEN [auth EXCEPT !.calls = auth.calls + 1,
                                    !.last = [call EXCEPT !.ok = TRUE,
                                                          !.token = config.tokens.access_token]]
                  ELSE [auth EXCEPT
                           !.calls = auth.calls + 1,
                           !.config = r.config,
                           !.file = r.file,
                           !.last = [call EXCEPT
                                        !.outcome = IF r.requested THEN outcome ELSE NoRefresh,
                                        !.requested = r.requested,
                                        !.save_failed = saveFails,
                                        !.clear_failed = clearFails,
                                        !.ok = r.ok,
                                        !.err = r.err,
                                        !.token = IF r.ok THEN r.config.tokens.access_token
                                                  ELSE ""]]
            /\ UNCHANGED <<fs, historyFile, saved, now, out, procs, parse, diff, store, gen, hush, watch, stream, hook>>

\* The next command starts.
AuthRestart ==
    /\ auth.pc \in {"loaded", "err"} /\ auth.calls > 0 /\ auth.calls < MaxAuthCalls
    /\ auth.last.ok \/ auth.last.err # ""
    /\ auth' = [auth EXCEPT !.pc = "start"]
    /\ UNCHANGED <<fs, historyFile, saved, now, out, procs, parse, diff, store, gen, hush, watch, stream, hook>>

\* A global configuration left by auth login, auth logout or nobody.
InitAuth ==
    /\ fs = [p \in Paths |-> Absent]
    /\ historyFile = NoFile
    /\ saved = [suggestions |-> << >>, source_files |-> << >>, generated_at |-> 0]
    /\ now = 0
    /\ out = NoOut
    /\ procs = [pid \in Pids |-> Idle]
    /\ parse = NoParse
    /\ diff = NoDiff
    /\ store = NoStore
    /\ gen = NoGen
    /\ hush = NoHush /\ watch = NoWatch /\ stream = NoStream /\ hook = NoHook
    /\ \E file \in {NoConfigFile} \cup {save_tokens(t, "u") : t \in StoredTokens \ {NoTokens}}
                   \cup {clear_tokens(save_tokens(NewTokens, "u"))} :
          auth = [pc |-> "start", file |-> file, now |-> 1000, calls |-> 0,
                  config |-> [api_url |-> None, tokens |-> NoTokens],
                  last |-> NoAuthCall]

NextAuth ==
    \/ ConfigLoad
    \/ GetValidAccessToken
    \/ AuthRestart

\* The commands that ask for a valid access token.
SpecAuth == InitAuth /\ [][NextAuth]_vars

(* ----------------------------- the stream ----------------------------- *)

\* U+FFFD, which String::from_utf8_lossy puts for bytes that are not UTF-8.
ReplacementChar == 65533

\* The UTF-8 bytes of a text of code points below U+0800.
RECURSIVE Utf8(_)
Utf8(text) ==
    IF text = << >> THEN << >>
    ELSE LET c == Head(text)
         IN  (IF c < 128 THEN <<c>> ELSE <<192 + (c \div 64), 128 + (c % 64)>>)
             \o Utf8(Tail(text))

\* What String::from_utf8_lossy makes of the bytes lo..hi of a chunk of
\* one- and two-byte sequences: a lead byte with its continuation byte is
\* their character, and a lead byte without its continuation byte and a
\* continuation byte without its lead byte each become U+FFFD.
RECURSIVE DecodeRange(_, _, _)
DecodeRange(chunk, lo, hi) ==
    LET b    == chunk[lo]
        lead(i) == chunk[i] \in 194..223 /\ i < Len(chunk) /\ chunk[i + 1] \in 128..191
        mid  == (lo + hi) \div 2
    IN  IF lo > hi THEN << >>
        ELSE IF lo < hi THEN DecodeRange(chunk, lo, mid) \o DecodeRange(chunk, mid + 1, hi)
        ELSE IF b < 128 THEN <<b>>
        ELSE IF lead(lo) THEN <<(b - 192) * 64 + (chunk[lo + 1] - 128)>>
        ELSE IF lo > 1 /\ lead(lo - 1) THEN << >>
        ELSE <<ReplacementChar>>

\* String::from_utf8_lossy (api.rs 283)
from_utf8_lossy(chunk) == DecodeRange(chunk, 1, Len(chunk))

\* The texts of the event stream (api.rs 286, 295-297, 304-350).
EventSeparator == <<10, 10>>

EventField == <<101, 118, 101, 110, 116, 58, 32>>

DataField == <<100, 97, 116, 97, 58, 32>>

ProgressName == <<112, 114, 111, 103, 114, 101, 115, 115>>

SuggestionName == <<115, 117, 103, 103, 101, 115, 116, 105, 111, 110>>

CompleteName == <<99, 111, 109, 112, 108, 101, 116, 101>>

ErrorName == <<101, 114, 114, 111, 114>>

\* The JSON documents of the data lines: the empty object, and the object
\* of a suggestion event, of whose suggestion (id s1, path t1) the
\* documents carry the code.
EmptyObject == <<123, 125>>

SuggestionOpen == <<123, 34, 115, 117, 103, 103, 101, 115, 116, 105, 111, 110, 34, 58, 123, 34, 99, 111, 100, 101, 34, 58, 34>>

SuggestionClose == <<34, 125, 125>>

\* serde_json::from_str::<Value> (api.rs 305, 317, 334, 351) on the
\* documents of the streams: the empty object, a suggestion object whose
\* code has no quote, backslash or control character, and everything else,
\* which is no JSON.
JsonOfData(data) ==
    LET n    == Len(data)
        code == SubSeq(data, Len(SuggestionOpen) + 1, n - Len(SuggestionClose))
    IN  IF data = EmptyObject THEN [ok |-> TRUE, suggestion |-> << >>]
        ELSE IF /\ n >= Len(SuggestionOpen) + Len(SuggestionClose)
                /\ SubSeq(data, 1, Len(SuggestionOpen)) = SuggestionOpen
                /\ SubSeq(data, n - Len(SuggestionClose) + 1, n) = SuggestionClose
                /\ \A i \in 1..Len(code) : code[i] >= 32 /\ code[i] \notin {34, 92}
        THEN [ok |-> TRUE, suggestion |-> <<[id |-> "s1", file_path |-> "t1", code |-> code]>>]
        ELSE [ok |-> FALSE, suggestion |-> << >>]

\* buffer.find("\n\n") (api.rs 286): the position before the first
\* separator, or -1.
Find(buffer) ==
    LET hits == {i \in 1..(Len(buffer) - 1) : SubSeq(buffer, i, i + 1) = EventSeparator}
    IN  IF hits = {} THEN -1
        ELSE (CHOOSE i \in hits : \A j \in hits : i <= j) - 1

\* str::lines (api.rs 294): the lines between line feeds, each without a
\* carriage return at its end; no line after the last line feed when
\* nothing follows it.
RECURSIVE Lines(_)
Lines(s) ==
    LET feeds == {i \in 1..Len(s) : s[i] = 10}
        first == CHOOSE i \in feeds : \A j \in feeds : i <= j
        strip(l) == IF l # << >> /\ l[Len(l)] = 13 THEN SubSeq(l, 1, Len(l) - 1) ELSE l
    IN  IF s = << >> THEN << >>
        ELSE IF feeds = {} THEN <<strip(s)>>
        ELSE <<strip(SubSeq(s, 1, first - 1))>> \o Lines(SubSeq(s, first + 1, Len(s)))

\* str::strip_prefix (api.rs 295, 297)
HasPrefix(line, prefix) ==
    Len(line) >= Len(prefix) /\ SubSeq(line, 1, Len(prefix)) = prefix

\* The last event: and data: lines of an event (api.rs 290-300).
RECURSIVE EventLines(_, _, _, _)
EventLines(lines, i, event_type, event_data) ==
    IF i > Len(lines) THEN [event_type |-> event_type, event_data |-> event_data]
    ELSE IF HasPrefix(lines[i], EventField)
    THEN EventLines(lines, i + 1,
                    <<SubSeq(lines[i], Len(EventField) + 1, Len(lines[i]))>>, event_data)
    ELSE IF HasPrefix(lines[i], DataField)
    THEN EventLines(lines, i + 1, event_type,
                    <<SubSeq(lines[i], Len(DataField) + 1, Len(lines[i]))>>)
    ELSE EventLines(lines, i + 1, event_type, event_data)

\* The inner loop of generate_streaming (api.rs 286-365) on the state st of
\* the call: every complete event of the buffer is taken off it and
\* handled, up to an error event.
RECURSIVE Drain(_)
Drain(st) ==
    LET event_end == Find(st.buffer)
        event_str == SubSeq(st.buffer, 1, event_end)
        rest      == SubSeq(st.buffer, event_end + 3, Len(st.buffer))
        ev        == EventLines(Lines(event_str), 1, << >>, << >>)
        taken     == [st EXCEPT !.buffer = rest]
        parsed    == JsonOfData(ev.event_data[1])
        evt_type  == ev.event_type[1]
    IN  IF event_end = -1 THEN st
        ELSE IF ev.event_type = << >> \/ ev.event_data = << >> \/ ~parsed.ok THEN Drain(taken)
        ELSE IF evt_type = ProgressName
        THEN Drain([taken EXCEPT !.on_event = Append(@, [type |-> "Progress", code |-> << >>])])
        ELSE IF evt_type = SuggestionName
        THEN IF parsed.suggestion = << >> THEN Drain(taken)
             ELSE Drain([taken EXCEPT
                           !.suggestions = Append(@, parsed.suggestion[1]),
                           !.on_event = Append(@, [type |-> "Suggestion",
                                                   code |-> parsed.suggestion[1].code])])
        ELSE IF evt_type = CompleteName
        THEN Drain([taken EXCEPT !.summary = "",
                                 !.on_event = Append(@, [type |-> "Complete", code |-> << >>])])
        ELSE IF evt_type = ErrorName
        THEN [taken EXCEPT !.on_event = Append(@, [type |-> "Error", code |-> << >>]),
                           !.err = TRUE]
        ELSE Drain(taken)

\* What the server writes for an event.
EventBytes(event) ==
    LET name == CASE event.type = "Progress"   -> ProgressName
                  [] event.type = "Suggestion" -> SuggestionName
                  [] event.type = "Complete"   -> CompleteName
                  [] event.type = "Error"      -> ErrorName
        data == IF event.type = "Suggestion"
                THEN SuggestionOpen \o Utf8(event.code) \o SuggestionClose
                ELSE EmptyObject
    IN  EventField \o name \o <<10>> \o DataField \o data \o EventSeparator

RECURSIVE StreamBytes(_)
StreamBytes(events) ==
    IF events = << >> THEN << >> ELSE EventBytes(Head(events)) \o StreamBytes(Tail(events))

\* The events of the streams.
Progress == [type |-> "Progress", code |-> << >>]

Complete == [type |-> "Complete", code |-> << >>]

ErrorEvent == [type |-> "Error", code |-> << >>]

SuggestionEvent(code) == [type |-> "Suggestion", code |-> code]

\* The event streams a server sends: a whole generation with a suggestion
\* whose code is an e with an acute accent, two suggestions without the
\* complete event, an error after the first suggestion, an error before a
\* suggestion, and nothing.
EventStreams ==
    {<<Progress, SuggestionEvent(<<233>>), Complete>>,
     <<SuggestionEvent(<<97>>), SuggestionEvent(<<98>>)>>,
     <<SuggestionEvent(<<97>>), ErrorEvent>>,
     <<ErrorEvent, SuggestionEvent(<<97>>)>>,
     << >>}

\* The responses: status 401 and 429, an error status with a JSON body, and
\* status 200 with an event stream.
StreamResponses ==
    {[status |-> 401, events |-> << >>, body |-> << >>],
     [status |-> 429, events |-> << >>, body |-> << >>],
     [status |-> 500, events |-> << >>, body |-> EmptyObject]}
    \cup {[status |-> 200, events |-> es, body |-> StreamBytes(es)] : es \in EventStreams}

\* The saved-suggestions file an earlier generation left.
EarlierFile ==
    [exists |-> TRUE,
     doc |-> SavedDoc([FullResponse EXCEPT
                          !.suggestions = <<[id |-> "s0", file_path |-> "t1", code |-> <<111>>]>>],
                      << >>, [p \in Paths |-> Absent], 0)]

\* The state of generate_streaming before the first chunk (api.rs 271-279).
NoCall ==
    [buffer |-> << >>, suggestions |-> << >>, summary |-> "", on_event |-> << >>,
     err |-> FALSE]

\* generate_streaming up to the status checks (api.rs 245-268): the request
\* fails, or the response has status 401 or 429, or its body is read.
StreamSend ==
    /\ stream.pc = "request"
    /\ \E sent \in BOOLEAN :
          stream' = IF ~sent \/ stream.response.status \in {401, 429}
                    THEN [stream EXCEPT !.pc = "returned", !.sent = sent,
                                        !.result = [kind |-> "Err", response |-> NoCall]]
                    ELSE [stream EXCEPT !.pc = "streaming", !.sent = TRUE]
    /\ UNCHANGED <<fs, historyFile, saved, now, out, procs, parse, diff, store, gen, hush, watch, auth, hook>>

\* One chunk of the body (api.rs 281-366): the next bytes, however many.
StreamChunk ==
    /\ stream.pc = "streaming"
    /\ \E n \in 1..(Len(stream.response.body) - stream.pos) :
          LET chunk == SubSeq(stream.response.body, stream.pos + 1, stream.pos + n)
              st    == Drain([stream.call EXCEPT !.buffer = @ \o from_utf8_lossy(chunk)])
          IN  stream' = IF st.err
                        THEN [stream EXCEPT !.pc = "returned", !.pos = @ + n, !.call = st,
                                            !.result = [kind |-> "Err", response |-> NoCall]]
                        ELSE [stream EXCEPT !.pos = @ + n, !.call = st]
    /\ UNCHANGED <<fs, historyFile, saved, now, out, procs, parse, diff, store, gen, hush, watch, auth, hook>>

\* The connection breaks with an error (api.rs 282: chunk_result?).
StreamBroken ==
    /\ stream.pc = "streaming"
    /\ stream' = [stream EXCEPT !.pc = "returned", !.broken = TRUE,
                                !.result = [kind |-> "Err", response |-> NoCall]]
    /\ UNCHANGED <<fs, historyFile, saved, now, out, procs, parse, diff, store, gen, hush, watch, auth, hook>>

\* The body ends (api.rs 281, 368-375): the response is built from what
\* was collected.
StreamEnd ==
    /\ stream.pc = "streaming"
    /\ stream.pos = Len(stream.response.body)
    /\ stream' = [stream EXCEPT !.pc = "returned",
                                !.result = [kind |-> "Ok", response |-> stream.call]]
    /\ UNCHANGED <<fs, historyFile, saved, now, out, procs, parse, diff, store, gen, hush, watch, auth, hook>>

\* What generate_streaming returns as a GenerateResponse (api.rs 368-375).
StreamedResponse(call) ==
    [suggestions |-> call.suggestions, summary |-> call.summary, model_used |-> "",
     used_byok |-> FALSE, tokens_used |-> 0, warning |-> None]

\* generate after the call (generate.rs 173-237): an error is printed and
\* nothing is saved; a response is saved, and a failure to save it is a
\* warning.
GenerateAfterStream ==
    /\ stream.pc = "returned"
    /\ \E saveFails \in BOOLEAN :
          /\ stream.result.kind = "Err" => ~saveFails
          /\ stream' =
                IF stream.result.kind = "Err" \/ saveFails
                THEN [stream EXCEPT !.pc = "done"]
                ELSE [stream EXCEPT
                        !.pc = "done",
                        !.file = [exists |-> TRUE,
                                  doc |-> SavedDoc(StreamedResponse(stream.result.response),
                                                   <<"src">>, fs, now)]]
    /\ UNCHANGED <<fs, historyFile, saved, now, out, procs, parse, diff, store, gen, hush, watch, auth, hook>>

\* A generate command about to send its request, with or without an earlier
\* saved-suggestions file.
InitStream ==
    /\ fs = [p \in Paths |-> Absent]
    /\ historyFile = NoFile
    /\ saved = [suggestions |-> << >>, source_files |-> << >>, generated_at |-> 0]
    /\ now = 1
    /\ out = NoOut
    /\ procs = [pid \in Pids |-> Idle]
    /\ parse = NoParse
    /\ diff = NoDiff
    /\ store = NoStore
    /\ gen = NoGen
    /\ hush = NoHush /\ watch = NoWatch /\ auth = NoAuth /\ hook = NoHook
    /\ \E response \in StreamResponses, file \in {NoGen.file, EarlierFile} :
          stream = [pc |-> "request", response |-> response, sent |-> FALSE,
                    broken |-> FALSE, pos |-> 0, call |-> NoCall,
                    result |-> [kind |-> "none", response |-> NoCall],
                    file |-> file, file_before |-> file]

NextStream ==
    \/ StreamSend
    \/ StreamChunk
    \/ StreamBroken
    \/ StreamEnd
    \/ GenerateAfterStream

\* vibetap generate from its request on.
SpecStream == InitStream /\ [][NextStream]_vars

(* --------------------------- pre-commit hook -------------------------- *)

\* The most hook commands of a run.
MaxHookOps == 3

\* PRE_COMMIT_HOOK_MARKER (hook.rs 6), as the code points of its text, like
\* every text of this section.
PRE_COMMIT_HOOK_MARKER ==
    <<35, 32, 86, 105, 98, 101, 84, 97, 112, 32, 112, 114, 101, 45, 99, 111,
      109, 109, 105, 116, 32, 104, 111, 111, 107>>

\* The line that ends the section (hook.rs 190, 288, 311).
EndOfHook ==
    <<35, 32, 69, 110, 100, 32, 86, 105, 98, 101, 84, 97, 112, 32, 104, 111,
      111, 107>>

\* The shebang install writes and uninstall knows (hook.rs 109, 112, 207).
ShSheBang ==
    <<35, 33, 47, 98, 105, 110, 47, 115, 104>>

\* What a shebang starts with (hook.rs 104).
SheBangStart ==
    <<35, 33, 47>>

\* The command of the hook and its option (hook.rs 90-93).
NowCommand ==
    <<118, 105, 98, 101, 116, 97, 112, 32, 110, 111, 119, 32, 45, 45, 115,
      116, 97, 103, 101, 100, 32, 45, 45, 113, 117, 105, 101, 116>>

SecurityOption ==
    <<32, 45, 45, 115, 101, 99, 117, 114, 105, 116, 121>>

\* The text of the advisory hook between the marker line and the command,
\* and between the command and the last line (hook.rs 283-289).
AdvisoryHead ==
    <<10, 35, 32, 83, 104, 111, 119, 115, 32, 116, 101, 115, 116, 32, 115,
      117, 103, 103, 101, 115, 116, 105, 111, 110, 115, 32, 98, 101, 102, 111,
      114, 101, 32, 99, 111, 109, 109, 105, 116, 32, 40, 97, 100, 118, 105,
      115, 111, 114, 121, 32, 111, 110, 108, 121, 41, 10, 105, 102, 32, 99,
      111, 109, 109, 97, 110, 100, 32, 45, 118, 32, 118, 105, 98, 101, 116,
      97, 112, 32, 62, 47, 100, 101, 118, 47, 110, 117, 108, 108, 32, 50, 62,
      38, 49, 59, 32, 116, 104, 101, 110, 10, 32, 32, 32, 32>>

AdvisoryTail ==
    <<32, 124, 124, 32, 116, 114, 117, 101, 10, 102, 105, 10>>

\* The same for the blocking hook (hook.rs 298-312).
BlockingHead ==
    <<10, 35, 32, 83, 104, 111, 119, 115, 32, 116, 101, 115, 116, 32, 115,
      117, 103, 103, 101, 115, 116, 105, 111, 110, 115, 32, 97, 110, 100, 32,
      98, 108, 111, 99, 107, 115, 32, 99, 111, 109, 109, 105, 116, 32, 105,
      102, 32, 115, 117, 103, 103, 101, 115, 116, 105, 111, 110, 115, 32, 97,
      114, 101, 32, 97, 118, 97, 105, 108, 97, 98, 108, 101, 10, 105, 102, 32,
      99, 111, 109, 109, 97, 110, 100, 32, 45, 118, 32, 118, 105, 98, 101,
      116, 97, 112, 32, 62, 47, 100, 101, 118, 47, 110, 117, 108, 108, 32, 50,
      62, 38, 49, 59, 32, 116, 104, 101, 110, 10, 32, 32, 32, 32, 111, 117,
      116, 112, 117, 116, 61, 36, 40>>

BlockingTail ==
    <<32, 50, 62, 38, 49, 41, 10, 32, 32, 32, 32, 114, 101, 115, 117, 108,
      116, 61, 36, 63, 10, 32, 32, 32, 32, 105, 102, 32, 91, 32, 45, 110, 32,
      34, 36, 111, 117, 116, 112, 117, 116, 34, 32, 93, 59, 32, 116, 104, 101,
      110, 10, 32, 32, 32, 32, 32, 32, 32, 32, 101, 99, 104, 111, 32, 34, 36,
      111, 117, 116, 112, 117, 116, 34, 10, 32, 32, 32, 32, 32, 32, 32, 32,
      101, 99, 104, 111, 32, 34, 34, 10, 32, 32, 32, 32, 32, 32, 32, 32, 101,
      99, 104, 111, 32, 34, 67, 111, 109, 109, 105, 116, 32, 98, 108, 111, 99,
      107, 101, 100, 58, 32, 84, 101, 115, 116, 32, 115, 117, 103, 103, 101,
      115, 116, 105, 111, 110, 115, 32, 97, 118, 97, 105, 108, 97, 98, 108,
      101, 46, 34, 10, 32, 32, 32, 32, 32, 32, 32, 32, 101, 99, 104, 111, 32,
      34, 82, 117, 110, 32, 39, 118, 105, 98, 101, 116, 97, 112, 32, 97, 112,
      112, 108, 121, 39, 32, 116, 111, 32, 97, 100, 100, 32, 116, 101, 115,
      116, 115, 44, 32, 111, 114, 32, 99, 111, 109, 109, 105, 116, 32, 119,
      105, 116, 104, 32, 45, 45, 110, 111, 45, 118, 101, 114, 105, 102, 121,
      32, 116, 111, 32, 115, 107, 105, 112, 46, 34, 10, 32, 32, 32, 32, 32,
      32, 32, 32, 101, 120, 105, 116, 32, 49, 10, 32, 32, 32, 32, 102, 105,
      10, 102, 105, 10>>

\* generate_non_blocking_hook (hook.rs 281-294)
generate_non_blocking_hook(vibetap_cmd) ==
    <<10>> \o PRE_COMMIT_HOOK_MARKER \o AdvisoryHead \o vibetap_cmd \o AdvisoryTail
    \o EndOfHook \o <<10>>

\* generate_blocking_hook (hook.rs 296-317)
generate_blocking_hook(vibetap_cmd) ==
    <<10>> \o PRE_COMMIT_HOOK_MARKER \o BlockingHead \o vibetap_cmd \o BlockingTail
    \o EndOfHook \o <<10>>

\* char::is_whitespace on the characters of the hooks.
WhiteSpace == {9, 10, 11, 12, 13, 32}

\* str::trim_end (hook.rs 106, 109)
trim_end(s) ==
    LET inked == {i \in 1..Len(s) : s[i] \notin WhiteSpace}
    IN  IF inked = {} THEN << >>
        ELSE SubSeq(s, 1, CHOOSE i \in inked : \A j \in inked : j <= i)

\* str::trim (hook.rs 207)
trim(s) ==
    LET inked == {i \in 1..Len(s) : s[i] \notin WhiteSpace}
    IN  IF inked = {} THEN << >>
        ELSE SubSeq(s, CHOOSE i \in inked : \A j \in inked : i <= j,
                       CHOOSE i \in inked : \A j \in inked : j <= i)

\* [&str]::join("\n") (hook.rs 204)
RECURSIVE JoinLines(_)
JoinLines(lines) ==
    IF lines = << >> THEN << >>
    ELSE IF Len(lines) = 1 THEN lines[1]
    ELSE lines[1] \o <<10>> \o JoinLines(Tail(lines))

\* The lines uninstall keeps (hook.rs 181-197): those outside a section
\* that starts at a line with the marker and ends at a line with the end
\* text.
RECURSIVE KeepLines(_, _, _)
KeepLines(lines, i, in_vibetap_section) ==
    IF i > Len(lines) THEN << >>
    ELSE IF Contains(lines[i], PRE_COMMIT_HOOK_MARKER) THEN KeepLines(lines, i + 1, TRUE)
    ELSE IF in_vibetap_section /\ Contains(lines[i], EndOfHook)
    THEN KeepLines(lines, i + 1, FALSE)
    ELSE IF ~in_vibetap_section THEN <<lines[i]>> \o KeepLines(lines, i + 1, FALSE)
    ELSE KeepLines(lines, i + 1, TRUE)

\* The loop of hook.rs 200-202: the lines without the empty ones at the end.
RECURSIVE PopEmpty(_)
PopEmpty(new_lines) ==
    IF new_lines # << >> /\ new_lines[Len(new_lines)] = << >>
    THEN PopEmpty(SubSeq(new_lines, 1, Len(new_lines) - 1))
    ELSE new_lines

\* .git/hooks/pre-commit does not exist.
NoHookFile == [exists |-> FALSE, content |-> << >>, executable |-> FALSE]

\* install (hook.rs 60-162) on the hook file.
install(file, block, security_only) ==
    LET vibetap_cmd == NowCommand \o (IF security_only THEN SecurityOption ELSE << >>)
        hook_script == IF block THEN generate_blocking_hook(vibetap_cmd)
                       ELSE generate_non_blocking_hook(vibetap_cmd)
        final_script ==
            IF file.exists
            THEN IF HasPrefix(file.content, SheBangStart)
                 THEN trim_end(file.content) \o <<10, 10>> \o hook_script
                 ELSE ShSheBang \o <<10>> \o trim_end(file.content) \o <<10, 10>> \o hook_script
            ELSE ShSheBang \o <<10>> \o hook_script
    IN  IF file.exists /\ Contains(file.content, PRE_COMMIT_HOOK_MARKER)
        THEN [file |-> file, result |-> "already_installed"]
        ELSE [file |-> [exists |-> TRUE, content |-> final_script, executable |-> TRUE],
              result |-> "installed"]

\* uninstall (hook.rs 164-223) on the hook file.
uninstall(file) ==
    LET new_lines == PopEmpty(KeepLines(Lines(file.content), 1, FALSE))
        joined == JoinLines(new_lines)
    IN  IF ~file.exists THEN [file |-> file, result |-> "no_hook"]
        ELSE IF ~Contains(file.content, PRE_COMMIT_HOOK_MARKER)
        THEN [file |-> file, result |-> "not_installed"]
        ELSE IF trim(joined) = << >> \/ trim(joined) = ShSheBang
        THEN [file |-> NoHookFile, result |-> "removed"]
        ELSE [file |-> [file EXCEPT !.content = joined \o <<10>>],
              result |-> "section_removed"]

\* The pre-commit hooks a repository may have before the first command:
\* only a shebang (of sh, of bash), three commands of which the second is an
\* empty line, a command without a shebang, a command without a line feed
\* after it, the same with an empty line or with blanks after it, and an
\* empty file.
ExistingHooks ==
    {<<35, 33, 47, 98, 105, 110, 47, 115, 104, 10>>,
     <<35, 33, 47, 98, 105, 110, 47, 98, 97, 115, 104, 10>>,
     <<35, 33, 47, 98, 105, 110, 47, 115, 104, 10, 97, 10, 10, 98, 10>>,
     <<97, 10>>,
     <<35, 33, 47, 98, 105, 110, 47, 115, 104, 10, 97>>,
     <<35, 33, 47, 98, 105, 110, 47, 115, 104, 10, 97, 10, 10>>,
     <<35, 33, 47, 98, 105, 110, 47, 115, 104, 10, 97, 32, 32, 10>>,
     << >>}

\* No hook command has run.
NoHookCmd == [cmd |-> "none", before |-> NoHookFile, result |-> "none"]

\* vibetap hook install (hook.rs 60-162); outside a repository
\* get_git_hooks_dir fails (hook.rs 45-58).
HookInstall ==
    \E block \in BOOLEAN, security_only \in BOOLEAN :
        LET r == install(hook.file, block, security_only)
        IN  /\ hook.pc = "ready" /\ hook.ops < MaxHookOps
            /\ ~hook.git => ~block /\ ~security_only
            /\ hook' = IF ~hook.git
                       THEN [hook EXCEPT !.ops = @ + 1, !.prev = hook.last,
                                         !.last = [cmd |-> "install", before |-> hook.file,
                                                   result |-> "not_a_repo"]]
                       ELSE [hook EXCEPT !.ops = @ + 1, !.file = r.file, !.prev = hook.last,
                                         !.last = [cmd |-> "install", before |-> hook.file,
                                                   result |-> r.result]]
            /\ UNCHANGED <<fs, historyFile, saved, now, out, procs, parse, diff, store, gen, hush, watch, auth, stream>>

\* vibetap hook uninstall (hook.rs 164-223)
HookUninstall ==
    LET r == uninstall(hook.file)
    IN  /\ hook.pc = "ready" /\ hook.ops < MaxHookOps
        /\ hook' = IF ~hook.git
                   THEN [hook EXCEPT !.ops = @ + 1, !.prev = hook.last,
                                     !.last = [cmd |-> "uninstall", before |-> hook.file,
                                               result |-> "not_a_repo"]]
                   ELSE [hook EXCEPT !.ops = @ + 1, !.file = r.file, !.prev = hook.last,
                                     !.last = [cmd |-> "uninstall", before |-> hook.file,
                                               result |-> r.result]]
        /\ UNCHANGED <<fs, historyFile, saved, now, out, procs, parse, diff, store, gen, hush, watch, auth, stream>>

\* A directory inside or outside a repository, with or without a
\* pre-commit hook.
InitHook ==
    /\ fs = [p \in Paths |-> Absent]
    /\ historyFile = NoFile
    /\ saved = [suggestions |-> << >>, source_files |-> << >>, generated_at |-> 0]
    /\ now = 0
    /\ out = NoOut
    /\ procs = [pid \in Pids |-> Idle]
    /\ parse = NoParse
    /\ diff = NoDiff
    /\ store = NoStore
    /\ gen = NoGen
    /\ hush = NoHush /\ watch = NoWatch /\ auth = NoAuth /\ stream = NoStream
    /\ \E git \in BOOLEAN,
          file \in {NoHookFile} \cup {[exists |-> TRUE, content |-> c, executable |-> TRUE] :
                                         c \in ExistingHooks} :
          /\ ~git => ~file.exists
          /\ hook = [pc |-> "ready", git |-> git, file |-> file, ops |-> 0,
                     last |-> NoHookCmd, prev |-> NoHookCmd]

NextHook ==
    \/ HookInstall
    \/ HookUninstall

\* The hook commands.
SpecHook == InitHook /\ [][NextHook]_vars

(* ----------------------- overlapping invocations ---------------------- *)

\* apply::execute up to its load of the ledger (apply.rs 44-144), run with
\* --yes on unchanged sources: the selection is parsed and the ledger read.
ApplyLoad(pid, selections, typed) ==
    LET parsed == Selected(selections, typed, Len(saved.suggestions))
    IN  /\ procs[pid].pc = "idle"
        /\ DriftGate(check_file_changes(saved, fs), TRUE, FALSE) = "pass"
        /\ parsed.ok /\ parsed.indices # << >>
        /\ procs' = [procs EXCEPT ![pid] =
                        [Idle EXCEPT !.pc = "loaded", !.cmd = "apply",
                                     !.history = load_history(historyFile),
                                     !.to_apply = parsed.indices]]
        /\ UNCHANGED <<fs, historyFile, saved, now, out, parse, diff, store, gen, hush, watch, auth, stream, hook>>

\* apply::execute from its write loop to the save (apply.rs 147-186).
ApplyFinish(pid) ==
    LET me == procs[pid]
        r  == ApplyLoop(saved.suggestions, me.to_apply, 1, fs, me.history, now,
                        0, Advance(0))
    IN  /\ me.pc = "loaded" /\ me.cmd = "apply"
        /\ fs' = r.fs
        /\ historyFile' = save_history(r.records)
        /\ procs' = [procs EXCEPT ![pid] =
                        [me EXCEPT !.pc = "done", !.history = r.records,
                                   !.new_records = SubSeq(r.records, Len(me.history) + 1,
                                                          Len(r.records))]]
        /\ UNCHANGED <<saved, now, out, parse, diff, store, gen, hush, watch, auth, stream, hook>>

\* revert::execute up to its selection (revert.rs 24-58), run with --yes.
RevertLoad(pid, all, count) ==
    LET loaded == load_history(historyFile)
    IN  /\ procs[pid].pc = "idle"
        /\ ToRevert(loaded, all, count) # << >>
        /\ procs' = [procs EXCEPT ![pid] =
                        [Idle EXCEPT !.pc = "loaded", !.cmd = "revert",
                                     !.history = Drained(loaded, all, count),
                                     !.to_revert = ToRevert(loaded, all, count)]]
        /\ UNCHANGED <<fs, historyFile, saved, now, out, parse, diff, store, gen, hush, watch, auth, stream, hook>>

\* revert::execute from its restoration loop to the save (revert.rs 92-137).
RevertFinish(pid) ==
    LET me == procs[pid]
        r  == RevertLoop(me.to_revert, fs, {})
    IN  /\ me.pc = "loaded" /\ me.cmd = "revert"
        /\ fs' = r.fs
        /\ historyFile' = save_history(me.history)
        /\ procs' = [procs EXCEPT ![pid] = [me EXCEPT !.pc = "done"]]
        /\ UNCHANGED <<saved, now, out, parse, diff, store, gen, hush, watch, auth, stream, hook>>

NextRace ==
    \/ \E pid \in Pids, input \in GateInputs :
           ApplyLoad(pid, input.selections, input.typed)
    \/ \E pid \in Pids : ApplyFinish(pid)
    \/ \E pid \in Pids, scope \in RevertScopes :
           RevertLoad(pid, scope.all, scope.count)
    \/ \E pid \in Pids : RevertFinish(pid)
    \/ Tick

\* Two invocations on one working directory, each a load of the ledger
\* followed by its writes and its save, with no lock between the two.
SpecRace == Init /\ [][NextRace]_vars

(* ------------------------------ properties --------------------------- *)

\* The step is an apply or revert invocation.
Invoked == out'.seq # out.seq

\* The step is a confirmed revert that went through its restoration loop.
RevertDone == Invoked /\ out'.cmd = "revert" /\ out'.result = "ok"

\* The step is a confirmed default revert (no --all, no --count).
DefaultRevertDone == RevertDone /\ out'.scope = "default"

\* The last invocation was an apply that completed, and wrote something.
ApplyCompleted == out.cmd = "apply" /\ out.result = "ok"

PathsOf(records) == {records[i].file_path : i \in 1..Len(records)}

DistinctPaths(records) ==
    \A i, j \in 1..Len(records) : records[i].file_path = records[j].file_path => i = j

\* The maximal run of records at the end of the ledger that share the last
\* record's applied_at.
TrailingRun(records) ==
    LET n     == Len(records)
        same  == {i \in 1..n : \A j \in i..n : records[j].applied_at = records[n].applied_at}
        first == CHOOSE i \in same : \A j \in same : i <= j
    IN  SubSeq(records, first, n)

\* C1: a default revert that directly follows a completed apply on pairwise
\* distinct paths, and whose restorations all succeed, puts every target path
\* back to its state before the apply (absent, or its original content).
C1_RoundTrip ==
    [][(ApplyCompleted /\ DistinctPaths(out.new_records) /\ DefaultRevertDone
        /\ out'.errors = << >>)
       => \A p \in PathsOf(out.new_records) : fs'[p] = out.pre_fs[p]]_vars

\* C2: after a first apply, a default revert that directly follows a second
\* completed apply removes exactly the records the second apply appended and
\* changes no file but those of the second apply.
C2_BatchIsolation ==
    [][(ApplyCompleted /\ DefaultRevertDone /\ out'.errors = << >>
        /\ Len(load_history(historyFile)) > Len(out.new_records))
       => /\ load_history(historyFile') \o out.new_records = load_history(historyFile)
          /\ \A p \in Paths \ PathsOf(out.new_records) : fs'[p] = fs[p]]_vars

\* C3: all records one apply invocation appends carry the same applied_at.
C3_OneTimestampPerBatch ==
    out.cmd = "apply" =>
        \A i, j \in 1..Len(out.new_records) :
            out.new_records[i].applied_at = out.new_records[j].applied_at

\* C4: a default revert selects exactly the maximal run of records at the end
\* of the ledger whose applied_at equals that of the last record.
C4_DefaultScope ==
    [][(Invoked /\ out'.cmd = "revert" /\ out'.scope = "default"
        /\ load_history(historyFile) # << >>)
       => out'.to_revert = TrailingRun(load_history(historyFile))]_vars

\* C5: when an apply invocation returns an error, the records of the
\* suggestions it already wrote are at the end of the persisted ledger.
C5_PartialBatchRecorded ==
    (out.cmd = "apply" /\ out.result = "err") =>
        LET ledger == load_history(historyFile)
            n      == Len(out.new_records)
        IN  /\ Len(ledger) >= n
            /\ SubSeq(ledger, Len(ledger) - n + 1, Len(ledger)) = out.new_records

\* C7: after a confirmed revert the persisted ledger is the loaded ledger
\* without the selected records, the others unchanged and in their order,
\* whether or not every restoration succeeded.
C7_LedgerMinusSelected ==
    [][RevertDone =>
          /\ historyFile'.exists
          /\ load_history(historyFile') \o out'.to_revert = load_history(historyFile)]_vars

\* A confirmed revert with a failed restoration has rewritten the ledger.
C7_Witness ==
    /\ out.cmd = "revert" /\ out.result = "ok" /\ out.errors # << >>
    /\ load_history(historyFile) # << >>

\* The positions of the selected records whose restoration failed.
ErrPos(o) == {o.errors[i].pos : i \in 1..Len(o.errors)}

\* The selected positions that target path p.
PosOf(o, p) == {k \in 1..Len(o.to_revert) : o.to_revert[k].file_path = p}

\* What a record's restoration leaves at its path when it succeeds.
Restored(record) ==
    IF record.created_file THEN Absent ELSE record.original_content

C9_CreatedFileDeleted ==
    [][RevertDone =>
        LET o == out'
        IN  \A p \in Paths :
                (PosOf(o, p) # {} /\ \A k \in PosOf(o, p) : o.to_revert[k].created_file)
                => /\ fs[p] = Absent => (fs'[p] = Absent /\ PosOf(o, p) \cap ErrPos(o) = {})
                   /\ (fs[p] # Absent /\ PosOf(o, p) \cap ErrPos(o) = {}) => fs'[p] = Absent]_vars

\* A revert of two created-file records of one path without an error: the
\* second found the file already absent.
C9_Witness ==
    /\ out.cmd = "revert" /\ out.result = "ok" /\ out.errors = << >>
    /\ \E j, k \in 1..Len(out.to_revert) :
          /\ j < k
          /\ out.to_revert[j].created_file /\ out.to_revert[k].created_file
          /\ out.to_revert[j].file_path = out.to_revert[k].file_path
          /\ fs[out.to_revert[k].file_path] = Absent

\* C10: when a tracked source file is changed or unreadable, --force is not
\* given and the user does not confirm at the drift prompt (declines it, or
\* runs with --yes), an apply invocation writes no file and leaves the
\* ledger as it is.
C10_DriftGate ==
    [][(Invoked /\ out'.cmd = "apply" /\ check_file_changes(saved, fs) # {}
        /\ ~out'.force /\ ~out'.drift_confirmed)
       => fs' = fs /\ historyFile' = historyFile]_vars

\* An apply invocation with --yes and without --force was stopped at the gate.
C10_Witness ==
    /\ out.cmd = "apply" /\ out.result = "drift_blocked" /\ ~out.force
    /\ check_file_changes(saved, fs) # {}

\* C11: the drift check reports, for every tracked path, the annotated entry
\* iff the file cannot be read, the plain entry iff it is readable and its
\* digest differs from the stored one, and nothing iff it is readable with
\* the stored digest; no path has two entries and no other path is reported.
C11_DriftReport ==
    [][(Invoked /\ out'.cmd = "apply" /\ ~out'.force)
       => LET report  == out'.changed_files
              tracked == DOMAIN saved.source_files
          IN  /\ \A e \in report : e.path \in tracked
              /\ \A p \in tracked :
                    LET readable == fs[p] # Absent
                        same     == readable /\ compute_hash(fs[p]) = saved.source_files[p]
                    IN  /\ ([path |-> p, unreadable |-> TRUE] \in report) <=> ~readable
                        /\ ([path |-> p, unreadable |-> FALSE] \in report)
                              <=> (readable /\ ~same)
                        /\ Cardinality({e \in report : e.path = p}) <= 1]_vars

\* An apply found one tracked file deleted, one edited, and the report has
\* the annotated entry of the first and the plain entry of the second.
C11_Witness ==
    /\ out.cmd = "apply" /\ ~out.force
    /\ \E p, q \in DOMAIN saved.source_files :
          /\ p # q
          /\ [path |-> p, unreadable |-> TRUE] \in out.changed_files
          /\ [path |-> q, unreadable |-> FALSE] \in out.changed_files
          /\ out.pre_fs[p] = Absent /\ out.pre_fs[q] = "bar"

\* The step is an apply that went through its whole write loop and saved.
ApplyDone == Invoked /\ out'.cmd = "apply" /\ out'.result = "ok"

\* The step is an apply whose write loop stopped at a failure.
ApplyFailed == Invoked /\ out'.cmd = "apply" /\ out'.result = "err"

\* The content of path p after the first n selected suggestions are written
\* in order on the file system fsx: the code of the last one that targets p.
AfterWrites(suggestions, to_apply, n, fsx, p) ==
    LET ks == {k \in 1..n : suggestions[to_apply[k] + 1].file_path = p}
    IN  IF ks = {} THEN fsx[p]
        ELSE suggestions[to_apply[CHOOSE k \in ks : \A j \in ks : j <= k] + 1].code

\* C12: every record a completed apply appends to the ledger has
\* created_file iff original_content is None, created_file iff the target
\* did not exist immediately before its write, and otherwise the content the
\* target had immediately before its write; the records of the persisted
\* ledger keep created_file iff original_content is None.
C12_RecordCapture ==
    [][ApplyDone =>
          /\ \A k \in 1..Len(out'.new_records) :
                LET r      == out'.new_records[k]
                    before == AfterWrites(saved.suggestions, out'.to_apply, k - 1, fs,
                                          r.file_path)
                IN  /\ r.created_file <=> (r.original_content = None)
                    /\ r.created_file <=> (before = Absent)
                    /\ ~r.created_file => r.original_content = before
          /\ \A i \in 1..Len(load_history(historyFile')) :
                LET r == load_history(historyFile')[i]
                IN  r.created_file <=> (r.original_content = None)]_vars

\* A completed apply wrote one path twice: the second record holds the code
\* the first write left there, the first one the content from before.
C12_Witness ==
    /\ ApplyCompleted
    /\ \E j, k \in 1..Len(out.new_records) :
          /\ j < k
          /\ out.new_records[j].file_path = out.new_records[k].file_path
          /\ out.new_records[j].original_content = "orig"
          /\ out.new_records[k].original_content = "c1"
          /\ out.new_records[k] \in Range(load_history(historyFile))

\* C13: a completed apply processes its selection in ascending index order,
\* leaves every path with the code of the last processed suggestion that
\* targets it (other paths as they were), and persists the ledger it found
\* followed by one record per selected index, in that order; applied_count
\* is the number of selected indices.
C13_ApplyAppends ==
    [][ApplyDone =>
          LET S   == out'.to_apply
              new == out'.new_records
          IN  /\ \A j, k \in 1..Len(S) : j < k => S[j] < S[k]
              /\ \A p \in Paths :
                    fs'[p] = AfterWrites(saved.suggestions, S, Len(S), fs, p)
              /\ historyFile'.exists
              /\ load_history(historyFile') = load_history(historyFile) \o new
              /\ Len(new) = Len(S)
              /\ \A k \in 1..Len(S) :
                    /\ new[k].suggestion_id = saved.suggestions[S[k] + 1].id
                    /\ new[k].file_path = saved.suggestions[S[k] + 1].file_path
              /\ out'.applied_count = Len(S)]_vars

\* A completed apply of all three suggestions on a ledger that already had
\* a record: the path two of them target holds the later one's code.
C13_Witness ==
    /\ ApplyCompleted
    /\ out.to_apply = <<0, 1, 2>>
    /\ Len(load_history(historyFile)) > 3
    /\ fs["t1"] = "c3" /\ fs["t2"] = "c2"

\* C14: when a capture or write fails, the file system is the one the
\* writes before the failing position left: no later suggestion is written
\* and no earlier write is undone.
C14_FailFast ==
    [][ApplyFailed =>
          LET S == out'.to_apply
              n == out'.applied_count
          IN  /\ n < Len(S)
              /\ Len(out'.new_records) = n
              /\ \A p \in Paths :
                    fs'[p] = AfterWrites(saved.suggestions, S, n, fs, p)]_vars

\* An apply of all three suggestions failed at its second position: the
\* first target is written, the later ones are not.
C14_Witness ==
    /\ out.cmd = "apply" /\ out.result = "err"
    /\ out.to_apply = <<0, 1, 2>> /\ out.applied_count = 1
    /\ fs["t1"] = "c1" /\ out.pre_fs["t1"] # "c1"
    /\ fs["t2"] # "c2"

\* A number or a range bound that is 0 or greater than max, or a token that
\* is neither a number nor a range of numbers.
Rejected(t, max) ==
    \/ t.kind = "junk"
    \/ /\ t.kind \in {"number", "range"}
       /\ (t.lo = 0 \/ t.hi = 0 \/ t.lo > max \/ t.hi > max)

HasAll(tokens) == \E i \in 1..Len(tokens) : tokens[i].kind = "all"

\* C15: an accepted selection parses to strictly ascending indices within
\* 0..max-1, and the selection with two tokens exchanged or one token
\* repeated parses to the same result.
C15_OrderAndRepetition ==
    [][/\ (parse'.called /\ parse'.result.ok) =>
             LET r == parse'.result.indices
             IN  /\ \A j, k \in 1..Len(r) : j < k => r[j] < r[k]
                 /\ \A k \in 1..Len(r) : r[k] \in 0..(Len(saved.suggestions) - 1)
       /\ (parse.called /\ parse.result.ok /\ parse'.op \in {"reorder", "repeat"}) =>
             parse'.result = parse.result]_vars

\* C16: a selection without the keyword that holds a number or range bound
\* that is 0 or greater than max, or a token that is neither a number nor
\* a range of numbers, is rejected: no index is returned.
C16_Rejects ==
    (/\ parse.called
     /\ ~HasAll(parse.tokens)
     /\ \E i \in 1..Len(parse.tokens) :
           Rejected(parse.tokens[i], Len(saved.suggestions)))
    => (~parse.result.ok /\ parse.result.indices = << >>)

\* A selection of a valid number followed by a range whose end is greater
\* than max was parsed, and rejected.
C16_Witness ==
    /\ parse.called /\ parse.op = "parse"
    /\ Len(parse.tokens) = 2
    /\ parse.tokens[1].kind = "number" /\ parse.tokens[1].lo = 1
    /\ parse.tokens[2].kind = "range" /\ parse.tokens[2].hi > Len(saved.suggestions)
    /\ ~parse.result.ok

\* C17: a selection that holds the keyword as a token, in any position and
\* whatever the other tokens are, parses to the full range 0..max-1.
C17_AllAnywhere ==
    (parse.called /\ HasAll(parse.tokens)) =>
        /\ parse.result.ok
        /\ parse.result.indices = [i \in 1..Len(saved.suggestions) |-> i - 1]

\* C18: a revert with --count N selects the last min(N, ledger size)
\* records and --all selects every record; the records before the selected
\* ones stay at the front of the ledger in their order, and are the whole
\* ledger after a confirmed revert; with N = 0 nothing is selected, no file
\* is touched and the ledger file is as it was.
C18_CountAndAll ==
    [][(Invoked /\ out'.cmd = "revert" /\ out'.scope \in {"count", "all"}) =>
          LET ledger == load_history(historyFile)
              after  == load_history(historyFile')
              k      == IF out'.scope = "all" THEN Len(ledger)
                        ELSE Min(out'.count, Len(ledger))
              kept   == SubSeq(ledger, 1, Len(ledger) - k)
          IN  /\ out'.to_revert = SubSeq(ledger, Len(ledger) - k + 1, Len(ledger))
              /\ Len(after) >= Len(kept) /\ SubSeq(after, 1, Len(kept)) = kept
              /\ out'.result = "ok" => after = kept
              /\ k = 0 => /\ out'.result = "nothing"
                          /\ fs' = fs
                          /\ historyFile' = historyFile]_vars

\* A confirmed revert --count 2 found a ledger of one record and selected it.
C18_Witness ==
    /\ out.cmd = "revert" /\ out.scope = "count" /\ out.result = "ok"
    /\ out.count = 2 /\ Len(out.to_revert) = 1
    /\ load_history(historyFile) = << >>

\* The hunks of the diff in order, each with the path of its delta.
InputHunks(input) ==
    Flatten([i \in 1..Len(input) |->
               [k \in 1..Len(input[i].hunks) |->
                   [path |-> input[i].path, hunk |-> input[i].hunks[k]]]])

\* The context, added and removed lines of a hunk, each as origin and text.
ContentLines(h) ==
    LET idx == {i \in 1..Len(h.lines) : h.lines[i].origin \in {"+", "-", " "}}
    IN  [k \in 1..Cardinality(idx) |->
            h.lines[CHOOSE i \in idx : Cardinality({j \in idx : j < i}) = k - 1]]

\* C19: parse_diff returns one DiffHunk per hunk of the diff, in order, with
\* the path of the hunk's delta, the four fields of its header and, as
\* content, its context, added and removed lines in order, each as origin
\* character and text.
C19_OneHunkPerHeader ==
    (diff.pc \in {"returned", "handled"}) =>
        LET expected == InputHunks(diff.input)
        IN  /\ Len(diff.hunks) = Len(expected)
            /\ \A k \in 1..Len(expected) :
                  /\ diff.hunks[k].file_path = expected[k].path
                  /\ diff.hunks[k].old_start = expected[k].hunk.old_start
                  /\ diff.hunks[k].old_lines = expected[k].hunk.old_lines
                  /\ diff.hunks[k].new_start = expected[k].hunk.new_start
                  /\ diff.hunks[k].new_lines = expected[k].hunk.new_lines
                  /\ diff.hunks[k].content = ContentLines(expected[k].hunk)

\* C20: parse_diff returns NoStagedChanges iff it produced no hunk, whatever
\* files_changed holds, and a StagedDiff with at least one hunk otherwise;
\* its callers take NoStagedChanges as nothing to do: they return Ok(()) or
\* go on with the watch loop.
C20_NoChanges ==
    /\ (diff.pc \in {"returned", "handled"}) =>
          /\ (diff.result = "NoStagedChanges") <=> (InputHunks(diff.input) = << >>)
          /\ (diff.result = "NoStagedChanges") <=> (diff.hunks = << >>)
          /\ diff.result \in {"NoStagedChanges", "Ok"}
    /\ (diff.pc = "handled" /\ diff.result = "NoStagedChanges") =>
          diff.outcome = IF diff.caller = "watch" THEN "continue" ELSE "return Ok(())"

\* generate got NoStagedChanges for a diff of two deltas without hunks, and
\* returned Ok(()).
C20_Witness ==
    /\ diff.pc = "handled" /\ diff.caller = "generate"
    /\ Len(diff.files_changed) = 2 /\ diff.hunks = << >>
    /\ diff.result = "NoStagedChanges" /\ diff.outcome = "return Ok(())"

\* The four header fields of a hunk.
HeaderOf(h) ==
    [old_start |-> h.old_start, old_lines |-> h.old_lines,
     new_start |-> h.new_start, new_lines |-> h.new_lines]

\* s is b with each element repeated one or more times in place.
RECURSIVE IsStretchOf(_, _)
IsStretchOf(s, b) ==
    IF b = << >> THEN s = << >>
    ELSE /\ s # << >>
         /\ s[1] = b[1]
         /\ \/ IsStretchOf(Tail(s), Tail(b))
            \/ IsStretchOf(Tail(s), b)

\* The change set parse_diff returned, or the one the file filter left.
Extracted == diff.pc \in {"returned", "handled", "filtered"} /\ diff.result = "Ok"

\* The state part of C21.
WellFormedChangeSet ==
    Extracted =>
        LET Kept(p)     == (diff.pc = "filtered" /\ diff.filter.given)
                              => MatchesFilter(p, diff.filter.text)
            first_seen  == SelectSeq([i \in 1..Len(diff.input) |-> diff.input[i].path], Kept)
        IN  /\ \A k \in 1..Len(diff.hunks) :
                  /\ diff.hunks[k].file_path \in DiffPaths
                  /\ PathChars(diff.hunks[k].file_path) # << >>
                  /\ diff.hunks[k].file_path \in Range(diff.files_changed)
            /\ \A i, j \in 1..Len(diff.files_changed) :
                  diff.files_changed[i] = diff.files_changed[j] => i = j
            /\ diff.files_changed = first_seen
            /\ \A i \in 1..Len(diff.input) :
                  Kept(diff.input[i].path) =>
                      LET InFile(h) == h.file_path = diff.input[i].path
                          mine      == SelectSeq(diff.hunks, InFile)
                      IN  IsStretchOf([k \in 1..Len(mine) |-> HeaderOf(mine[k])],
                                      [k \in 1..Len(diff.input[i].hunks) |->
                                          HeaderOf(diff.input[i].hunks[k])])

\* The step part of C21: a hunk whose content grew has the current file
\* as its file_path.
AppendsToCurrentFile ==
    \A k \in 1..Len(diff'.hunks) :
        (diff'.hunks[k].content #
            (IF k <= Len(diff.hunks) /\ diff'.pc = "printing"
             THEN diff.hunks[k].content ELSE << >>)
         /\ diff'.pc = "printing")
            => diff'.hunks[k].file_path = diff'.current_file

\* C21: in every change set parse_diff returns, also after generate's file
\* filter, each hunk has a non-empty file_path that is in files_changed, the
\* hunks of one file are in document order, files_changed has no duplicates
\* and is in first-seen order; and a line is only appended to a hunk of the
\* current file.
C21_WellFormedChangeSet ==
    /\ []WellFormedChangeSet
    /\ [][AppendsToCurrentFile]_vars

\* generate --file ./a.rs on a diff of two files with hunks kept the hunks
\* and the path of a.rs only.
C21_Witness ==
    /\ diff.pc = "filtered" /\ diff.filter.given
    /\ diff.filter.text = <<".", "/", "a", ".", "r", "s">>
    /\ Len(diff.input) = 2
    /\ \A i \in 1..2 : diff.input[i].hunks # << >>
    /\ diff.files_changed = <<"a.rs">>
    /\ diff.hunks # << >>
    /\ diff.outcome = "proceed"

\* C22: load_history returns the empty ledger when the ledger file does not
\* exist; after save_history(L) returned, the file holds the text of L and
\* nothing of its earlier content; and the next load_history returns the
\* records of L in their order.
C22_StoreRoundTrip ==
    /\ (store.pc = "loaded:idle" /\ ~store.file.exists) =>
          store.result = [ok |-> TRUE, records |-> << >>]
    /\ (store.pc \in {"saved", "loaded:saved"}) =>
          store.file = [exists |-> TRUE, text |-> HistoryJson(store.history)]
    /\ (store.pc = "loaded:saved") =>
          store.result = [ok |-> TRUE, records |-> store.history]

\* A ledger of one record was saved over a file that held two, and loaded.
C22_Witness ==
    /\ store.pc = "loaded:saved"
    /\ store.before.exists
    /\ Len(store.before.text) > Len(store.json)
    /\ Len(store.history) = 1
    /\ store.history[1].original_content = None
    /\ store.result.ok /\ store.result.records = store.history

\* C25: at every point of a save, crashed or not, the ledger file
\* deserializes, and to the ledger it held before the save or to the ledger
\* being saved.
C25_NoTornWrite ==
    (store.pc \in {"writing", "crashed", "loaded:crashed"}) =>
        LET on_disk == LoadHistoryFile(store.file)
        IN  /\ on_disk.ok
            /\ on_disk.records \in {LoadHistoryFile(store.before).records, store.history}

\* C23: load_suggestions returns what the current schema holds when the
\* file is in it (also when it would be a legacy file too); otherwise a file
\* in the legacy schema loads as its response with no fingerprints and
\* generated_at = 0; a missing file, or one in neither schema, is an error.
\* What the program writes in either schema loads as what was written.
C23_LoadSchemas ==
    (gen.pc = "loaded") =>
        LET current == SavedFromJson(gen.file.doc)
            legacy  == ResponseFromJson(gen.file.doc)
        IN  /\ ~gen.file.exists => ~gen.result.ok
            /\ (gen.file.exists /\ current.ok) => gen.result = current
            /\ (gen.file.exists /\ ~current.ok /\ legacy.ok) =>
                  /\ gen.result.ok
                  /\ gen.result.saved.response = legacy.response
                  /\ gen.result.saved.source_files = << >>
                  /\ gen.result.saved.generated_at = 0
            /\ (gen.file.exists /\ ~current.ok /\ ~legacy.ok) => ~gen.result.ok
            /\ \A r \in Responses :
                  /\ gen.file = [exists |-> TRUE, doc |-> ResponseJson(r)] =>
                        gen.result = [ok |-> TRUE,
                                      saved |-> [response |-> r, source_files |-> << >>,
                                                 generated_at |-> 0]]
                  /\ \A sv \in [response : {r},
                                source_files : {<< >>, [src |-> compute_hash("foo")]},
                                generated_at : {5}] :
                        gen.file = [exists |-> TRUE, doc |-> SavedJson(sv)] =>
                            gen.result = [ok |-> TRUE, saved |-> sv]

\* A legacy file without the optional fields was loaded: three suggestions,
\* no fingerprints, generated_at 0.
C23_Witness ==
    /\ gen.pc = "loaded" /\ gen.file.exists
    /\ gen.file.doc.t = "object"
    /\ ~SavedFromJson(gen.file.doc).ok
    /\ DOMAIN gen.file.doc.v = {"suggestions", "summary", "modelUsed", "tokensUsed"}
    /\ gen.result.ok
    /\ gen.result.saved.response.suggestions = Suggestions
    /\ gen.result.saved.source_files = << >>
    /\ gen.result.saved.generated_at = 0

\* The step leaves the working directory, the ledger file and the
\* saved-suggestions file as they are.
NothingWritten ==
    /\ fs' = fs
    /\ historyFile' = historyFile
    /\ gen'.file = gen.file
    /\ saved' = saved

C26_RestoreEarliest ==
    [][(RevertDone /\ out'.errors = << >>) =>
          \A p \in PathsOf(out'.to_revert) :
              LET mine  == {k \in 1..Len(out'.to_revert) : out'.to_revert[k].file_path = p}
                  first == CHOOSE k \in mine : \A j \in mine : k <= j
              IN  fs'[p] = Restored(out'.to_revert[first])]_vars

\* C27: a revert declined at the prompt leaves the ledger file with the
\* records it had, in their order, and leaves every file as it was.
C27_CancelIsNoOp ==
    [][(Invoked /\ out'.cmd = "revert" /\ out'.result = "cancelled") =>
          /\ load_history(historyFile') = load_history(historyFile)
          /\ fs' = fs]_vars

\* C28: in an accepted selection without the keyword, no range has its
\* start after its end, and every number and every index of every range is
\* in the result.
C28_NoSilentSkip ==
    (parse.called /\ ~HasAll(parse.tokens) /\ parse.result.ok) =>
        \A i \in 1..Len(parse.tokens) :
            LET t == parse.tokens[i]
            IN  (t.kind \in {"number", "range"}) =>
                    /\ t.lo <= t.hi
                    /\ \A k \in t.lo..t.hi : (k - 1) \in Range(parse.result.indices)

\* C29: when the last generation, by generate or by the watch loop, saved
\* a non-empty list of suggestions, an apply without --force reports every
\* changed source file of that generation that existed then and has another
\* content, or none, now.
C29_StalenessDetected ==
    [][(/\ Invoked /\ out'.cmd = "apply" /\ ~out'.force
        /\ gen.last.result = "saved" /\ gen.last.suggestions # << >>) =>
          \A p \in Range(gen.last.files_changed) :
              (Exists(gen.last.fs_at, p) /\ fs[p] # gen.last.fs_at[p]) =>
                  \E c \in out'.changed_files : c.path = p]_vars

\* C30: after a generate call that got the provider's response, the
\* saved-suggestions file loads as that response's suggestions with the
\* digests of the call's changed files, and apply reads those; after a call
\* that failed at the provider, the file is as it was.
C30_SupersededWholesale ==
    [][(gen'.calls # gen.calls /\ gen'.last.cmd = "generate") =>
          /\ gen'.last.provider_ok =>
                LET loaded == load_suggestions(gen'.file)
                    files  == {q \in Range(gen'.last.files_changed) : Exists(fs, q)}
                IN  /\ loaded.ok
                    /\ loaded.saved.response.suggestions = gen'.last.suggestions
                    /\ loaded.saved.source_files = [q \in files |-> compute_hash(fs[q])]
                    /\ saved'.suggestions = gen'.last.suggestions
          /\ gen'.last.result = "provider_error" =>
                gen'.file = gen.file /\ saved' = saved]_vars

\* C31: when the capture of an existing target's content fails, the apply
\* stops there: the target keeps the content it had at that moment, and the
\* ledger file is the one the invocation found, with no record for it.
C31_CaptureFailure ==
    [][ApplyFailed =>
          LET S      == out'.to_apply
              k      == out'.applied_count + 1
              sg     == saved.suggestions[S[k] + 1]
              before == AfterWrites(saved.suggestions, S, k - 1, fs, sg.file_path)
          IN  before # Absent =>
                 /\ fs'[sg.file_path] = before
                 /\ historyFile' = historyFile
                 /\ \A i \in 1..Len(out'.new_records) :
                        i >= k => out'.new_records[i].suggestion_id # sg.id]_vars

\* An apply of suggestions 2 and 3 failed at its first position, whose
\* target existed: the target holds its content and the ledger has no record.
C31_Witness ==
    /\ out.cmd = "apply" /\ out.result = "err"
    /\ out.to_apply = <<1, 2>> /\ out.applied_count = 0
    /\ out.pre_fs["t2"] = "orig" /\ fs["t2"] = "orig"
    /\ load_history(historyFile) = << >>

\* now < t + d, exactly, for a duration d of the u64 seconds secs.
BeforeExpiry(clk, t, secs) == UnsignedGT(secs, FromNat(clk - t, U64Bytes))

\* C32: in a working directory without .vibetap/state.json the watch command
\* finds the loaded state not hushed and goes on to watch.
C32_FreshNotHushed ==
    (watch.pc # "idle" /\ ~watch.state_file) => watch.pc = "started"

\* C33: after a hush for d seconds at time t the state is hushed exactly at
\* the times before t + d, after hush forever it is hushed, after hush
\* --clear it is not, and remaining() is Some exactly when it is hushed.
C33_Lifecycle ==
    hush.last.result = "ok" =>
       LET state  == load_state(hush.file).state
           hushed == is_hushed(state, hush.now)
       IN  /\ hush.last.cmd = "duration" =>
                 (hushed <=> BeforeExpiry(hush.now, hush.last.at, hush.last.secs))
           /\ hush.last.cmd = "forever" => hushed
           /\ hush.last.cmd = "clear" => ~hushed
           /\ remaining(state, hush.now, hush.checks).kind = "some" <=> hushed
           /\ hush.status.valid => (hush.status.printed = "Hushed" <=> hushed)

\* C34: every request the watch loop sends belongs to an iteration in which
\* the state was not hushed, some event was relevant and the diff hash was
\* not the last one; no two consecutive requests carry the same diff content
\* and none is sent while hushed.
C34_WatchGate ==
    \A i \in 1..Len(watch.requests) :
        LET r == watch.requests[i]
        IN  /\ ~r.iter.hushed /\ r.iter.relevant /\ r.iter.hash_differs
            /\ ~r.hushed_at_send
            /\ i > 1 => r.hunks # watch.requests[i - 1].hunks

\* The width of the exact values the durations are compared with.
WideBytes == 3 * U64Bytes

\* A u64 as an exact value.
Widen(x) == x \o Zero(WideBytes - Len(x))

\* The positions where a run of digits ends.
RunEnds(s) == {i \in 1..Len(s) : IsDigit(s[i]) /\ (i = Len(s) \/ ~IsDigit(s[i + 1]))}

\* The digits of the run that ends at position i.
RunAt(s, i) ==
    SubSeq(s, CHOOSE j \in 1..i : /\ \A k \in j..i : IsDigit(s[k])
                                 /\ (j = 1 \/ ~IsDigit(s[j - 1])),
           i)

\* The unit of the run that ends at position i: minutes for trailing digits.
UnitAt(s, i) == IF i = Len(s) THEN "m" ELSE s[i + 1]

\* The exact value of a decimal numeral.
ExactNumber(digits) ==
    LET val[i \in 0..Len(digits)] ==
            IF i = 0 THEN Zero(WideBytes)
            ELSE MulAdd(val[i - 1], 10, DigitVal(digits[i]), 1).v
    IN  val[Len(digits)]

\* The exact sum of number times unit seconds over the components of s.
ExactSecs(s) ==
    LET sum[i \in 0..Len(s)] ==
            IF i = 0 THEN Zero(WideBytes)
            ELSE IF i \in RunEnds(s)
            THEN AddBytes(sum[i - 1],
                          MulAdd(ExactNumber(RunAt(s, i)), UnitSecs(UnitAt(s, i)), 0, 1).v,
                          0, 1).v
            ELSE sum[i - 1]
    IN  sum[Len(s)]

\* C35: parse_duration returns the sum over the number-unit components of
\* number times unit seconds, trailing digits counting as minutes; a number
\* followed by an unknown unit letter and a total of zero are errors.
C35_DurationSum ==
    hush.pc = "parsed" =>
       LET s == to_lowercase(Trim(hush.input))
       IN  IF \/ \E i \in RunEnds(s) : UnitSecs(UnitAt(s, i)) = 0
              \/ ExactSecs(s) = Zero(WideBytes)
           THEN hush.result.kind = "err"
           ELSE /\ hush.result.kind = "ok"
                /\ Widen(hush.result.secs) = ExactSecs(s)

\* The tokens in the configuration file.
StoredNow == load_global(auth.file).tokens

\* The last call found an OAuth token whose expiry time minus the buffer is
\* before now.
ExpiredOAuth ==
    /\ auth.calls > 0 /\ auth.last.before.some
    /\ auth.last.before.auth_type # "api_key"
    /\ auth.last.before.expires_at # << >>
    /\ auth.last.before.expires_at[1] - 300 < auth.now

\* The three cases of the token a call returns: none without tokens, the
\* API key without a request, and for an expired OAuth token the new one of
\* a refresh that is in the file, or an error.
TokenCases ==
    /\ (auth.calls > 0 /\ ~auth.last.before.some) =>
          ~auth.last.ok /\ auth.last.err = "NotAuthenticated" /\ ~auth.last.requested
    /\ (auth.calls > 0 /\ auth.last.before.some /\ auth.last.before.auth_type = "api_key") =>
          /\ auth.last.ok /\ ~auth.last.requested
          /\ auth.last.token = auth.last.before.access_token
          /\ auth.file = auth.last.file_before
    /\ ExpiredOAuth =>
          /\ auth.last.token # auth.last.before.access_token
          /\ auth.last.ok =>
                /\ auth.last.requested /\ auth.last.outcome.kind = "tokens"
                /\ auth.last.token = NewTokens.access_token
                /\ StoredNow = NewTokens
          /\ (~auth.last.requested \/ auth.last.outcome.kind # "tokens") =>
                ~auth.last.ok /\ auth.last.err # ""

\* The refresh was rejected as unauthorized, already used, invalid or expired.
RejectedAs(outcome) ==
    /\ outcome.kind \in {"failure", "rejected"}
    /\ \/ outcome.status = 401
       \/ Contains(outcome.text, <<"A", "l", "r", "e", "a", "d", "y", " ", "U", "s", "e", "d">>)
       \/ Contains(outcome.text, <<"I", "n", "v", "a", "l", "i", "d">>)
       \/ Contains(outcome.text, <<"e", "x", "p", "i", "r", "e", "d">>)

RECURSIVE UpToError(_)
UpToError(events) ==
    IF events = << >> THEN << >>
    ELSE IF Head(events).type = "Error" THEN <<Head(events)>>
    ELSE <<Head(events)>> \o UpToError(Tail(events))

\* The code of the suggestion events among events, in their order.
RECURSIVE SuggestionCodes(_)
SuggestionCodes(events) ==
    IF events = << >> THEN << >>
    ELSE (IF Head(events).type = "Suggestion" THEN <<Head(events).code>> ELSE << >>)
         \o SuggestionCodes(Tail(events))

\* The call has returned after reading an event stream whose connection
\* did not break.
StreamRead ==
    /\ stream.pc \in {"returned", "done"}
    /\ stream.sent /\ stream.response.status = 200 /\ ~stream.broken

\* C37: however the bytes of an event stream are cut into chunks,
\* generate_streaming has called on_event once for each event up to the
\* first error event, in stream order; when it returns Ok its suggestions
\* are those of the suggestion events in stream order; a stream with an
\* error event makes it return Err, and after Err the generate command
\* leaves the saved-suggestions file as it was.
C37_AnyChunking ==
    /\ StreamRead =>
          /\ stream.call.on_event = UpToError(stream.response.events)
          /\ stream.result.kind = "Ok" =>
                [i \in 1..Len(stream.result.response.suggestions) |->
                    stream.result.response.suggestions[i].code]
                   = SuggestionCodes(stream.response.events)
          /\ (\E i \in 1..Len(stream.response.events) :
                 stream.response.events[i].type = "Error") => stream.result.kind = "Err"
    /\ (stream.pc = "done" /\ stream.result.kind = "Err") =>
          stream.file = stream.file_before

\* C38: generate_streaming returns Ok only after a complete event, and
\* after a stream without one the generate command leaves the
\* saved-suggestions file as it was.
C38_OkOnlyComplete ==
    /\ (stream.pc \in {"returned", "done"} /\ stream.result.kind = "Ok") =>
          \E i \in 1..Len(stream.call.on_event) : stream.call.on_event[i].type = "Complete"
    /\ (stream.pc = "done"
          /\ ~\E i \in 1..Len(stream.call.on_event) : stream.call.on_event[i].type = "Complete") =>
          stream.file = stream.file_before

\* An install on a hook that has the marker leaves the file as it was.
InstallIdempotent ==
    (hook.last.cmd = "install" /\ hook.last.before.exists
       /\ Contains(hook.last.before.content, PRE_COMMIT_HOOK_MARKER)) =>
       hook.file = hook.last.before

\* The last two commands were an install that wrote the hook and an
\* uninstall.
InstalledUninstalled ==
    /\ hook.last.cmd = "uninstall" /\ hook.last.result # "not_a_repo"
    /\ hook.prev.cmd = "install" /\ hook.prev.result = "installed"

\* The lines are nothing but a shebang, or nothing.
OnlySheBang(lines) ==
    /\ \A i \in 1..Len(lines) : lines[i] = << >> \/ HasPrefix(lines[i], SheBangStart)
    /\ Cardinality({i \in 1..Len(lines) : lines[i] # << >>}) <= 1

\* C39 as stated: an install on a hook with the marker changes nothing;
\* after an install and an uninstall the file has no line of the section and
\* has the lines of the hook that was there before, in their order (after
\* a shebang when that hook had none), and it is removed when nothing but a
\* shebang remains.
C39_RoundTrip ==
    /\ InstallIdempotent
    /\ InstalledUninstalled =>
          LET before == IF hook.prev.before.exists THEN Lines(hook.prev.before.content)
                        ELSE << >>
          IN  IF OnlySheBang(before) THEN ~hook.file.exists
              ELSE /\ hook.file.exists
                   /\ ~Contains(hook.file.content, PRE_COMMIT_HOOK_MARKER)
                   /\ ~Contains(hook.file.content, EndOfHook)
                   /\ Lines(hook.file.content) \in {before, <<ShSheBang>> \o before}

\* C6: once both overlapping invocations are done, the persisted ledger holds
\* every record a completed apply appended, unless a revert selected it.
C6_NoLostUpdate ==
    (\A pid \in Pids : procs[pid].pc = "done") =>
        \A pid \in Pids :
            \A i \in 1..Len(procs[pid].new_records) :
                \/ procs[pid].new_records[i] \in Range(load_history(historyFile))
                \/ \E other \in Pids :
                       procs[pid].new_records[i] \in Range(procs[other].to_revert)

====
